---- MODULE Spec2Model ----
(***************************************************************************)
(* A model of the bookkeeping logic of the procurement dashboard:          *)
(*   - the deadline-alert ledger (EmailManager.verificarEEnviarAlertas),   *)
(*   - the case repository (DatabaseManager) with the role-gated views,    *)
(*   - sign-up and role assignment (AuthManager),                          *)
(*   - the daily backup (BackupManager).                                   *)
(* JavaScript is single threaded per tab: a step of the model is the code  *)
(* a tab runs between two awaits.  Tabs and browsers interleave at awaits. *)
(***************************************************************************)
EXTENDS Integers, Sequences, FiniteSets, TLC

\* ------------------------------------------------------------- bounds
\* The clock advances in half days: tick 2d is the morning of local day d,
\* tick 2d+1 its late evening/early morning (where the UTC date differs from
\* the local date when the timezone is not UTC).
MaxTick == 2
\* Dashboard loads (invocations of verificarEEnviarAlertas), all tabs together.
MaxLoads == 2

\* --------------------------------------------------- program constants
CincoDias == 5
UmDia == 1
SeteDias == 7

Tabs == {"t1", "t2"}
CaseOrder == <<"c1", "c2">>
Cases == {CaseOrder[i] : i \in 1..Len(CaseOrder)}
NoDate == 0 - 100
Null == 0 - 200
\* due dates the case form is saved with
DueDates == {CincoDias, CincoDias + 1}
\* responsavel of each case; c2 has none (empty string in the form)
Responsavel == [c \in Cases |-> IF c = "c1" THEN "ana" ELSE ""]
Names == {"ana"}

VARIABLES
    \* the wall clock and the browser's timezone
    tick, tz,
    \* remote store: dataFinal of each in-progress case, team members with a contact
    prazo, funcionarios,
    \* which EmailManager variant is deployed: "owner" (part_005) or "all" (email.js)
    variant,
    \* localStorage 'alertas_enviados', shared by the tabs of a browser
    ledger,
    \* per tab: the position inside verificarEEnviarAlertas and its local variables
    pcA, snapPrazo, snapLedger, hoje, novos, idx, lim, resultado,
    \* bookkeeping of the model: loads done, emails delivered, the (case, threshold,
    \* key day) for which notificarAlertaPrazo was called, and those the ledger
    \* check suppressed
    loads, enviados, tentados, suprimidos

clockVars == <<tick, tz>>

alertVars == <<prazo, funcionarios, variant, ledger, pcA,
               snapPrazo, snapLedger, hoje, novos, idx, lim, resultado,
               loads, enviados, tentados, suprimidos>>

\* ------------------------------------------- accounts, cases and views
\* Push keys the remote store hands out: 1 .. MaxChaves.
MaxChaves == 3
\* onAuthStateChanged callbacks with a user that a page sees between two loads.
MaxAuth == 2
Chaves == 1 .. MaxChaves
Sessoes == {"s1", "s2"}
Contas == {"u1", "u2"}
\* what the case form is submitted with
DataInicioForm == 0 - 1
DataInicioSemente == 0 - 3
Estados == {"analise"}

VARIABLES
    \* remote store: usuarios/{uid}.role ("none": no record), the in-progress
    \* collection (a function from the keys that exist to the stored value), the
    \* finalized collection (the stored values, each with its key in id) and the
    \* next push key
    usuarios, andamento, finalizados, proxChave,
    \* the account each browser session signs in with
    conta,
    \* AuthManager of each session: currentRole, the position of signup and of the
    \* onAuthStateChanged callback, and the role each of them computed
    currentRole, pcSign, roleSign, pcEns, roleEns,
    \* login.js appStarted and the position of App.initialize
    appStarted, pcApp,
    \* since the page was loaded: the calls of window.startApp, and the
    \* onAuthStateChanged callbacks that fired with a user
    nStart, nAuth,
    \* the rendered page: keys of the rows of the in-progress table and whether
    \* the rows were rendered with the gestor buttons
    linhas, botoes,
    \* ProcessosManager: the modal and processoEditando (0: null)
    modal, processoEditando,
    \* DatabaseManager.finalizarProcesso in flight: position, id, the record read,
    \* the key of the copy (0: none written)
    pcF, alvo, lido, copia,
    \* bookkeeping of the model: the outcome of the last finalizarProcesso of each
    \* session, whether that call started after the session's previous call for
    \* the same id had returned success, and the write methods a session called
    \* while its role was usuario
    ultimo, emSequencia, escritasUsuario

caseVars == <<usuarios, andamento, finalizados, proxChave, conta,
              currentRole, pcSign, roleSign, pcEns, roleEns, appStarted, pcApp,
              nStart, nAuth,
              linhas, botoes, modal, processoEditando,
              pcF, alvo, lido, copia,
              ultimo, emSequencia, escritasUsuario>>

remoteVars == <<usuarios, andamento, finalizados, proxChave>>
authVars == <<currentRole, pcSign, roleSign, pcEns, roleEns>>
appVars == <<appStarted, pcApp, nStart, nAuth>>
viewVars == <<linhas, botoes>>
modalVars == <<modal, processoEditando>>
finVars == <<pcF, alvo, lido, copia>>
histVars == <<ultimo, emSequencia, escritasUsuario>>

\* ------------------------------------------------------------- backup
\* createBackup calls, all sessions together
MaxBackups == 2
RetentionDays == 30

VARIABLES
    \* remote store: the date of the Last-Backup Pointer (NoDate: no pointer) and
    \* the key it names, the snapshots and the metadata entries
    lastBackup, lastBackupKey, backupsData, backupsMeta,
    \* BackupManager of each session: initialized, the position inside
    \* autoBackupIfNeeded / createBackup, and createBackup's isAutomatic, today
    \* and backupKey
    initialized, pcB, isAutomatic, today, backupKey,
    \* bookkeeping of the model: createBackup calls made, and the number and
    \* local day of each call autoBackupIfNeeded made
    nBackups, autos,
    \* what the last createBackup of each session returned ("none": no call or a
    \* call in flight), and the `today` of the calls that returned success
    retorno, sucessos,
    \* how the last cleanupOldBackups of each session ended ("none": none yet)
    limpeza,
    \* cleanupOldBackups's cutoffString of each session (Null: no pass running)
    cutoffString,
    \* what the createBackup of each session has done so far, in order
    passos,
    \* App.isInitialized of each page
    appInit,
    \* what hasBackupToday returned to the autoBackupIfNeeded of each page
    \* ("none": not returned yet)
    alreadyDone,
    \* how the autoBackupIfNeeded of each page ended ("none": not ended)
    autoLog

autoVars == <<appInit, alreadyDone, autoLog>>
bkVars == <<lastBackup, lastBackupKey, backupsData, backupsMeta,
            initialized, pcB, isAutomatic, today, backupKey, nBackups, autos,
            retorno, sucessos, limpeza, cutoffString, passos, autoVars>>

\* ---------------------------------------------------- backup retention
\* Days the clock runs over when the retention of the snapshots is looked at.
MaxDiasRetencao == 31

\* ------------------------------------------------------ ledger pruning
\* Days the clock runs over when the pruning of the ledger is looked at.
MaxDiasPoda == 9

VARIABLES
    \* bookkeeping of the model: the argument of the last salvarAlertasEnviados
    \* and the clock at that call (Null: no call yet)
    submetidos, gravadoEm

podaVars == <<submetidos, gravadoEm>>

\* ------------------------------------------------------ collectAllData
VARIABLES
    \* data of the collectAllData of each session: path -> entry
    coleta,
    \* the paths whose get() that collectAllData has issued, in order
    lidas,
    \* the paths whose get() rejected
    falhas
colVars == <<coleta, lidas, falhas>>

\* ------------------------------------------------------ listeners
\* Changes the remote store makes to each collection.
MaxVersao == 1
VARIABLES
    \* one page: the position of carregarDados of each module
    pcM,
    \* DatabaseManager.listeners: path -> the module whose callback is subscribed
    listeners,
    \* the contents of each collection in the remote store (a version number)
    remoto,
    \* the contents each module holds of each collection and has drawn
    visto,
    \* the subscriptions onValue made on each path that were not unsubscribed:
    \* the modules of their callbacks, in the order they were made
    vivos
ouvVars == <<pcM, listeners, remoto, visto, vivos>>

\* ------------------------------------------------------- controls
\* Calls of one operation a page may have in flight at once.
MaxEmVoo == 2
VARIABLES
    \* loadingOverlay has the class active
    overlay,
    \* btnBackupManual.disabled
    btnDisabled,
    \* the calls of each user operation of each page that are in flight, by
    \* the await they are at
    voo,
    \* the notification the last call of each operation ended with
    toast
ctlVars == <<overlay, btnDisabled, voo, toast>>

\* ------------------------------------------------------- date helpers
\* Calendar days the date helpers are called with: -MaxData .. MaxData.
MaxData == 3
VARIABLES
    \* the last call of a date helper: its name and arguments
    chamada,
    \* what that call returned
    retornou
datVars == <<chamada, retornou>>

\* ------------------------------------------------------- user records
VARIABLES
    \* nome and email of each stored user record: 0 as created, 1 as edited
    nomes,
    \* the last call of updateUserRole, deleteUser or updateUser: the session,
    \* the method, currentRole at the call, the result and whether a remote
    \* write was issued
    adm
admVars == <<nomes, adm>>

\* what the later parts of the model add
extraVars == <<datVars, admVars>>

maisVars == <<colVars, ouvVars, ctlVars, extraVars>>

vars == <<clockVars, alertVars, caseVars, bkVars, podaVars, maisVars>>

\* what the actions of each part leave alone
foraBackup == <<tick, tz, alertVars, caseVars, podaVars, maisVars>>
foraAlerta == <<caseVars, bkVars, podaVars, maisVars>>
foraCasos == <<tick, tz, conta, alertVars, bkVars, podaVars, maisVars>>

\* -------------------------------------------------------------- dates
\* Local calendar day of a clock value (Date#getDate and friends).
LocalDay(tk) == tk \div 2

\* The date part of Date#toISOString: the UTC calendar day. In a timezone behind
\* UTC (Brazil is UTC-3) the UTC date is already tomorrow's in the evening.
UtcDay(tk) ==
    IF tz = "behind" THEN (tk + 1) \div 2 ELSE tk \div 2

\* The timezones of the browser: "utc", "behind" (UTC-3, no daylight saving),
\* and two zones on UTC in winter and UTC+1 in summer (Europe/Lisbon) seen
\* around a change of the clocks, which happens at 01:00 UTC of day
\* DiaDaMudanca: "adianta" enters summer time there, "atrasa" leaves it.
DiaDaMudanca == 0 - 1

\* Hours the local clock is ahead of UTC in the first hours of local day d.
Offset(d) ==
    CASE tz = "behind" -> 0 - 3
      [] tz = "adianta" -> IF d > DiaDaMudanca THEN 1 ELSE 0
      [] tz = "atrasa" -> IF d > DiaDaMudanca THEN 0 ELSE 1
      [] OTHER -> 0

\* new Date(ano, mes - 1, dia) and setHours(0, 0, 0, 0): the instant of the
\* local midnight of day d, in hours.
MeiaNoite(d) == 24 * d - Offset(d)

\* Math.ceil(a / b) for b > 0
Ceil(a, b) == 0 - ((0 - a) \div b)

\* utils.diasParaPrazo: local midnight of the due date minus local midnight of
\* today, in days, rounded up.
DiasParaPrazo(dataFinal, tk) ==
    IF dataFinal = NoDate THEN Null
    ELSE Ceil(MeiaNoite(dataFinal) - MeiaNoite(LocalDay(tk)), 24)

\* A key that leaves the day out.
ChaveSemDia(id, limiar, dia) == <<id, limiar, 0>>

\* ------------------------------------------------------------- ledger
\* `${processo.id}_5dias_${hoje}`: the three parts joined by '_'.
Chave(id, limiar, dia) == <<id, limiar, dia>>

\* a.split('_').pop()
DataAlerta(chave) == chave[Len(chave)]

Limiar(dias) == IF dias = CincoDias THEN "5dias" ELSE "1dia"

\* A pruning that drops the key of the boundary day too.
AlertasFiltradosExclusivo(alertas, tk) ==
    {a \in alertas : DataAlerta(a) > UtcDay(tk) - SeteDias}

\* salvarAlertasEnviados: keeps the keys whose day is >= today - 7 (as UTC dates).
AlertasFiltrados(alertas, tk) ==
    {a \in alertas : DataAlerta(a) >= UtcDay(tk) - SeteDias}

\* ----------------------------------------------- verificarEEnviarAlertas
Limiares == {"5dias", "1dia"}
Days == LocalDay(0) .. LocalDay(MaxTick)
\* the days toISOString can give within the clock's range
DiasIso == 0 .. ((MaxTick + 1) \div 2)
\* an email of the model's count: case, threshold, local day of the send, day of the key
Envios == Cases \X Limiares \X Days \X DiasIso

\* `if (!processo.dataFinal || !processo.responsavel) continue;` (owner variant)
\* `if (!processo.dataFinal) continue;` (all-users variant)
Pula(c, sp) ==
    \/ sp[c] = NoDate
    \/ variant = "owner" /\ Responsavel[c] = ""

\* Thresholds that take every case with 5 days or less.
NoLimiarAteCinco(dias) == dias <= CincoDias

\* dias === 5 or dias === 1
NoLimiar(dias) == dias = CincoDias \/ dias = UmDia

\* `!alertasEnviados.includes(chave)`
DeveDisparar(c, limiar, hj, sl) == Chave(c, limiar, hj) \notin sl

\* A case of the snapshot that is at a threshold now.
Vencendo(c, sp) ==
    /\ ~Pula(c, sp)
    /\ DiasParaPrazo(sp[c], tick) # Null
    /\ NoLimiar(DiasParaPrazo(sp[c], tick))

\* The for loop from position i up to its next await: the position of the first
\* case for which notificarAlertaPrazo is called, 0 when the loop ends.
RECURSIVE ProximoAlerta(_, _, _, _)
ProximoAlerta(i, sp, sl, hj) ==
    IF i > Len(CaseOrder) THEN 0
    ELSE LET c == CaseOrder[i]
         IN IF Vencendo(c, sp)
               /\ DeveDisparar(c, Limiar(DiasParaPrazo(sp[c], tick)), hj, sl)
            THEN i
            ELSE ProximoAlerta(i + 1, sp, sl, hj)

\* The cases at a threshold that the loop passes over from i to j-1 because the
\* ledger check says no, as (case, threshold, day of the evaluation).
Suprimidos(i, j, sp, sl, hj) ==
    {<<CaseOrder[k], Limiar(DiasParaPrazo(sp[CaseOrder[k]], tick)), hj>> :
        k \in {n \in i..(j - 1) :
                 /\ Vencendo(CaseOrder[n], sp)
                 /\ ~DeveDisparar(CaseOrder[n],
                                  Limiar(DiasParaPrazo(sp[CaseOrder[n]], tick)), hj, sl)}}

IdleLocals(t) ==
    /\ snapPrazo' = [snapPrazo EXCEPT ![t] = [c \in Cases |-> NoDate]]
    /\ snapLedger' = [snapLedger EXCEPT ![t] = {}]
    /\ hoje' = [hoje EXCEPT ![t] = 0]
    /\ novos' = [novos EXCEPT ![t] = {}]
    /\ idx' = [idx EXCEPT ![t] = 0]
    /\ lim' = [lim EXCEPT ![t] = "5dias"]
    /\ resultado' = [resultado EXCEPT ![t] = "none"]

\* Runs the loop from position i to its next await, or to the end of the function
\* (the save of the ledger and the return).
Continuar(t, i, sp, sl, hj, nv) ==
    LET j == ProximoAlerta(i, sp, sl, hj)
        fim == IF j = 0 THEN Len(CaseOrder) + 1 ELSE j
    IN /\ suprimidos' = suprimidos \cup Suprimidos(i, fim, sp, sl, hj)
       /\ IF j = 0
          THEN /\ ledger' = IF nv # {} THEN AlertasFiltrados(sl \cup nv, tick)
                            ELSE ledger
               /\ pcA' = [pcA EXCEPT ![t] = "idle"]
               /\ IdleLocals(t)
          ELSE /\ ledger' = ledger
               /\ pcA' = [pcA EXCEPT ![t] = "notify"]
               /\ snapPrazo' = [snapPrazo EXCEPT ![t] = sp]
               /\ snapLedger' = [snapLedger EXCEPT ![t] = sl]
               /\ hoje' = [hoje EXCEPT ![t] = hj]
               /\ novos' = [novos EXCEPT ![t] = nv]
               /\ idx' = [idx EXCEPT ![t] = j]
               /\ lim' = [lim EXCEPT ![t] =
                            Limiar(DiasParaPrazo(sp[CaseOrder[j]], tick))]
               /\ resultado' = [resultado EXCEPT ![t] = "none"]

\* The dashboard load calls verificarEEnviarAlertas. The EmailManager's fields are
\* whatever initialize, configurar and limparConfiguracao left: an input here.
\* `if (!this.isConfigured()) return 0`, then the await of getProcessosAndamento().
IniciarVerificacao(t) ==
    /\ UNCHANGED foraAlerta
    /\ pcA[t] = "idle"
    /\ loads < MaxLoads
    /\ loads' = loads + 1
    /\ \E isConfigured \in BOOLEAN :
         pcA' = [pcA EXCEPT ![t] = IF isConfigured THEN "get" ELSE "idle"]
    /\ UNCHANGED <<tick, tz, prazo, funcionarios, variant, ledger,
                   snapPrazo, snapLedger, hoje, novos, idx, lim, resultado,
                   enviados, tentados, suprimidos>>

\* getProcessosAndamento resolves: on failure return 0; otherwise read the ledger,
\* take today's ISO date and run the loop to its first await.
ObterProcessos(t) ==
    /\ UNCHANGED foraAlerta
    /\ pcA[t] = "get"
    /\ \E ok \in BOOLEAN :
         IF ok
         THEN Continuar(t, 1, prazo, ledger, UtcDay(tick), {})
         ELSE /\ pcA' = [pcA EXCEPT ![t] = "idle"]
              /\ IdleLocals(t)
              /\ UNCHANGED <<ledger, suprimidos>>
    /\ UNCHANGED <<tick, tz, prazo, funcionarios, variant,
                   loads, enviados, tentados>>

\* getEmailResponsavel: the team member whose name matches, with a contact.
EmailResponsavel(c) == Responsavel[c] # "" /\ Responsavel[c] \in funcionarios

\* notificarAlertaPrazo for the case at idx: the owner variant returns a failure
\* when no address resolves; the all-users variant returns undefined when no user
\* has an address (temDestino: getAllUsers is an input); enviarEmail fails when the
\* service is not initialized (podeEnviar) or the vendor rejects the send.
Notificar(t) ==
    /\ UNCHANGED foraAlerta
    /\ pcA[t] = "notify"
    /\ LET c == CaseOrder[idx[t]]
           envio == <<c, lim[t], LocalDay(tick), hoje[t]>>
       IN \E temDestino \in BOOLEAN, podeEnviar \in BOOLEAN, vendorOk \in BOOLEAN :
            /\ variant = "owner" => temDestino = EmailResponsavel(c)
            /\ LET res == IF ~temDestino
                          THEN (IF variant = "owner" THEN "fail" ELSE "undef")
                          ELSE IF ~podeEnviar THEN "fail"
                          ELSE IF vendorOk THEN "ok" ELSE "fail"
               IN /\ resultado' = [resultado EXCEPT ![t] = res]
                  /\ enviados' = IF res = "ok"
                                 THEN [enviados EXCEPT ![envio] = @ + 1]
                                 ELSE enviados
    /\ tentados' = tentados \cup {<<CaseOrder[idx[t]], lim[t], hoje[t]>>}
    /\ pcA' = [pcA EXCEPT ![t] = "sent"]
    /\ UNCHANGED <<tick, tz, prazo, funcionarios, variant, ledger,
                   snapPrazo, snapLedger, hoje, novos, idx, lim,
                   loads, suprimidos>>

\* The key is pushed whatever notificarAlertaPrazo returned.
NovosAlertasSempre(t) ==
    novos[t] \cup {<<CaseOrder[idx[t]], lim[t], hoje[t]>>}

\* What the loop pushes to novosAlertas after the await: the owner variant only
\* `if (result.success)`, the all-users variant always.
NovosAlertas(t) ==
    IF variant = "owner" /\ resultado[t] # "ok"
    THEN novos[t]
    ELSE novos[t] \cup {Chave(CaseOrder[idx[t]], lim[t], hoje[t])}

\* The await of notificarAlertaPrazo resumes; the loop goes on to the next await
\* or to the end.
AposNotificar(t) ==
    /\ UNCHANGED foraAlerta
    /\ pcA[t] = "sent"
    /\ Continuar(t, idx[t] + 1, snapPrazo[t], snapLedger[t], hoje[t], NovosAlertas(t))
    /\ UNCHANGED <<tick, tz, prazo, funcionarios, variant,
                   loads, enviados, tentados>>

\* The page is reloaded or closed: the tab's script state is gone, whatever it
\* was doing; localStorage and the remote store stay.
Recarregar(t) ==
    /\ UNCHANGED foraAlerta
    /\ pcA[t] # "idle"
    /\ pcA' = [pcA EXCEPT ![t] = "idle"]
    /\ IdleLocals(t)
    /\ UNCHANGED <<tick, tz, prazo, funcionarios, variant, ledger,
                   loads, enviados, tentados, suprimidos>>

AvancarRelogio ==
    /\ UNCHANGED foraAlerta
    /\ tick < MaxTick
    /\ tick' = tick + 1
    /\ UNCHANGED <<tz, prazo, funcionarios, variant, ledger, pcA,
                   snapPrazo, snapLedger, hoje, novos, idx, lim, resultado,
                   loads, enviados, tentados, suprimidos>>

\* A gestor saves the form of a case with another due date, or none
\* (updateProcessoAndamento). Case c2 is left as it is.
EditarPrazo(c, d) ==
    /\ UNCHANGED foraAlerta
    /\ c = CaseOrder[1]
    /\ d # prazo[c]
    /\ prazo' = [prazo EXCEPT ![c] = d]
    /\ UNCHANGED <<tick, tz, funcionarios, variant, ledger, pcA,
                   snapPrazo, snapLedger, hoje, novos, idx, lim, resultado,
                   loads, enviados, tentados, suprimidos>>

\* A team member is saved with a contact (createFuncionario).
CadastrarFuncionario(n) ==
    /\ UNCHANGED foraAlerta
    /\ n \notin funcionarios
    /\ funcionarios' = funcionarios \cup {n}
    /\ UNCHANGED <<tick, tz, prazo, variant, ledger, pcA,
                   snapPrazo, snapLedger, hoje, novos, idx, lim, resultado,
                   loads, enviados, tentados, suprimidos>>

\* ============================================== accounts, cases and views
\* ------------------------------------------------------------ records
\* The fields a stored case has; Null stands for a field that is not there. The
\* instants createdAt, updatedAt and finalizadoEm, which no code reads, are left
\* out of the records.
SemRegistro ==
    [sigadoc |-> "", dataInicio |-> NoDate, status |-> "", id |-> Null]

\* `dados` of salvarProcesso: the values of the form's inputs.
Formularios ==
    {[sigadoc |-> "sd2", dataInicio |-> DataInicioForm, status |-> e,
      id |-> Null] : e \in Estados}

\* The record DatabaseManager.create stores: {...data, id: newRef.key, ...}.
DataWithId(data, chave) == [data EXCEPT !.id = chave]

\* firebase update(ref(path/id), {...data, updatedAt}): the named children are
\* written, the others stay; a node that does not exist comes into existence.
Updates(col, id, data) ==
    LET antes == IF id \in DOMAIN col THEN col[id] ELSE SemRegistro
        depois == [antes EXCEPT !.sigadoc = data.sigadoc,
                                !.dataInicio = data.dataInicio,
                                !.status = data.status]
    IN [k \in DOMAIN col \cup {id} |-> IF k = id THEN depois ELSE col[k]]

\* firebase remove(ref(path/id))
Remove(col, id) == [k \in DOMAIN col \ {id} |-> col[k]]

\* firebase set(ref(path/id), value)
Set(col, id, value) == [k \in DOMAIN col \cup {id} |-> IF k = id THEN value ELSE col[k]]

\* Date#getDay of an instant whose local date is day d: 0 is Sunday; day 0 of
\* the model is a Monday (2024-01-08).
GetDay(d) == (d + 71) % 7

\* DatabaseManager.calcularDiasCorridos: Math.ceil(Math.abs(fim - inicio) / day)
CalcularDiasCorridos(dataInicio, dataFim) ==
    IF dataFim >= dataInicio THEN dataFim - dataInicio ELSE dataInicio - dataFim

\* DatabaseManager.calcularDiasUteis: new Date('YYYY-MM-DD') is the UTC midnight
\* of the day, so `atual` starts at the local date and hour of that instant
\* (behind UTC: 21:00 of the day before); setDate(getDate() + 1) moves it to the
\* same local hour of the next local day; the loop counts the local days whose
\* getDay is neither 0 nor 6 while atual <= fim.
CalcularDiasUteis(dataInicio, dataFim) ==
    LET fim == 24 * dataFim
        local == 24 * dataInicio + Offset(dataInicio)
        dia0 == local \div 24
        hora == local % 24
        Atual(d) == 24 * d + hora - Offset(d)
    IN Cardinality({d \in dia0 .. dataFim :
                      Atual(d) <= fim /\ GetDay(d) # 0 /\ GetDay(d) # 6})

\* A copy that forgets the status of the case.
ProcessoSemStatus(processo, tk) ==
    [sigadoc |-> processo.sigadoc, dataInicio |-> processo.dataInicio,
     status |-> "", id |-> processo.id,
     dataFinalizacao |-> UtcDay(tk),
     diasCorridos |-> CalcularDiasCorridos(processo.dataInicio, UtcDay(tk)),
     diasUteis |-> CalcularDiasUteis(processo.dataInicio, UtcDay(tk))]

\* processoFinalizado of finalizarProcesso, built from the record read.
ProcessoFinalizado(processo, tk) ==
    [sigadoc |-> processo.sigadoc, dataInicio |-> processo.dataInicio,
     status |-> processo.status, id |-> processo.id,
     dataFinalizacao |-> UtcDay(tk),
     diasCorridos |-> CalcularDiasCorridos(processo.dataInicio, UtcDay(tk)),
     diasUteis |-> CalcularDiasUteis(processo.dataInicio, UtcDay(tk))]

\* AuthManager.isGestor
IsGestor(s) == currentRole[s] = "gestor"

\* allUsers.exists() ? 'usuario' : 'gestor'
RoleInicial == IF \E u \in Contas : usuarios[u] # "none" THEN "usuario" ELSE "gestor"

\* The write methods a session has called while its role was usuario.
Registrar(s, metodo) ==
    escritasUsuario' = IF currentRole[s] = "usuario"
                       THEN escritasUsuario \cup {<<s, metodo>>}
                       ELSE escritasUsuario

\* The listeners of carregarDados deliver the collections and renderTabelas draws
\* the rows, with the buttons of the role the session has at that moment.
Renderizado(s, col) ==
    /\ linhas' = [linhas EXCEPT ![s] = DOMAIN col]
    /\ botoes' = [botoes EXCEPT ![s] = IsGestor(s)]

\* -------------------------------------------------------- AuthManager
\* A tryStartApp without the appStarted flag.
TryStartAppSempre(s) ==
    /\ appStarted' = [appStarted EXCEPT ![s] = TRUE]
    /\ pcApp' = [pcApp EXCEPT ![s] = "modulos"]
    /\ nStart' = [nStart EXCEPT ![s] = @ + 1]
    /\ nAuth' = nAuth

\* login.js tryStartApp, called by the onAuthChange callback with a user:
\* `if (appStarted) return; if (!window.startApp) return; appStarted = true;
\* await window.startApp()`. window.startApp is defined once the main module
\* was evaluated (definido).
TryStartApp(s) ==
    /\ \E definido \in BOOLEAN :
         IF appStarted[s] \/ ~definido
         THEN UNCHANGED <<appStarted, pcApp, nStart>>
         ELSE /\ appStarted' = [appStarted EXCEPT ![s] = TRUE]
              /\ pcApp' = [pcApp EXCEPT ![s] = "modulos"]
              /\ nStart' = [nStart EXCEPT ![s] = @ + 1]
    /\ nAuth' = nAuth

\* The onAuthStateChanged callback fires with a user.
AuthComUsuario(s) ==
    /\ nAuth[s] < MaxAuth
    /\ nAuth' = [nAuth EXCEPT ![s] = @ + 1]

\* signup, up to its first await resolving: createUserWithEmailAndPassword made
\* the account and signed it in, so onAuthStateChanged fires and its callback
\* starts _ensureUserRecord; signup goes on to read usuarios.
Cadastrar(s) ==
    /\ pcSign[s] = "out"
    /\ pcEns[s] \in {"idle", "done"}
    /\ pcSign' = [pcSign EXCEPT ![s] = "getAll"]
    /\ pcEns' = [pcEns EXCEPT ![s] = "get"]
    /\ AuthComUsuario(s)
    /\ UNCHANGED <<remoteVars, currentRole, roleSign, roleEns, appStarted, pcApp,
                   nStart, viewVars, modalVars, finVars, histVars, foraCasos>>

\* The session ends (authManager.logout of App.logout, or a sign-out in another
\* tab of the browser): onAuthStateChanged fires with null, currentUser and
\* currentRole become null and the callbacks run with null, which starts nothing.
SairSessao(s) ==
    /\ pcSign[s] = "done"
    /\ pcEns[s] = "done"
    /\ pcSign' = [pcSign EXCEPT ![s] = "out"]
    /\ currentRole' = [currentRole EXCEPT ![s] = "null"]
    /\ UNCHANGED <<remoteVars, roleSign, pcEns, roleEns, appVars, viewVars,
                   modalVars, finVars, histVars, foraCasos>>

\* A sign-in (authManager.login from the form, or in another tab of the browser)
\* resolves: onAuthStateChanged fires with the user and its callback starts
\* _ensureUserRecord.
EntrarSessao(s) ==
    /\ pcSign[s] = "out"
    /\ pcEns[s] \in {"idle", "done"}
    /\ pcSign' = [pcSign EXCEPT ![s] = "done"]
    /\ pcEns' = [pcEns EXCEPT ![s] = "get"]
    /\ AuthComUsuario(s)
    /\ UNCHANGED <<remoteVars, currentRole, roleSign, roleEns, appStarted, pcApp,
                   nStart, viewVars, modalVars, finVars, histVars, foraCasos>>

\* signup: get(usuarios) resolves and the role is chosen.
SignupLerUsuarios(s) ==
    /\ pcSign[s] = "getAll"
    /\ roleSign' = [roleSign EXCEPT ![s] = RoleInicial]
    /\ pcSign' = [pcSign EXCEPT ![s] = "set"]
    /\ UNCHANGED <<remoteVars, currentRole, pcEns, roleEns, appVars, viewVars,
                   modalVars, finVars, histVars, foraCasos>>

\* signup: set(usuarios/uid) resolves; currentRole = role.
SignupGravar(s) ==
    /\ pcSign[s] = "set"
    /\ usuarios' = [usuarios EXCEPT ![conta[s]] = roleSign[s]]
    /\ currentRole' = [currentRole EXCEPT ![s] = roleSign[s]]
    /\ pcSign' = [pcSign EXCEPT ![s] = "done"]
    /\ UNCHANGED <<andamento, finalizados, proxChave, roleSign, pcEns, roleEns,
                   appVars, viewVars, modalVars, finVars, histVars, foraCasos>>

\* _ensureUserRecord: get(usuarios/uid) resolves. With a record the role is the
\* record's (snapshot.val().role || 'usuario'), the callbacks run and the app
\* starts; without one usuarios is read.
EnsureLerRegistro(s) ==
    /\ pcEns[s] = "get"
    /\ IF usuarios[conta[s]] # "none"
       THEN /\ currentRole' = [currentRole EXCEPT ![s] =
                                 IF usuarios[conta[s]] = "semPapel" THEN "usuario"
                                 ELSE usuarios[conta[s]]]
            /\ pcEns' = [pcEns EXCEPT ![s] = "done"]
            /\ TryStartApp(s)
       ELSE /\ pcEns' = [pcEns EXCEPT ![s] = "getAll"]
            /\ UNCHANGED <<currentRole, appVars>>
    /\ UNCHANGED <<remoteVars, pcSign, roleSign, roleEns, viewVars,
                   modalVars, finVars, histVars, foraCasos>>

\* _ensureUserRecord: get(usuarios) resolves and the role is chosen.
EnsureLerUsuarios(s) ==
    /\ pcEns[s] = "getAll"
    /\ roleEns' = [roleEns EXCEPT ![s] = RoleInicial]
    /\ pcEns' = [pcEns EXCEPT ![s] = "set"]
    /\ UNCHANGED <<remoteVars, currentRole, pcSign, roleSign, appVars, viewVars,
                   modalVars, finVars, histVars, foraCasos>>

\* _ensureUserRecord: set(usuarios/uid) resolves; currentRole = role; the
\* callbacks run and the app starts.
EnsureGravar(s) ==
    /\ pcEns[s] = "set"
    /\ usuarios' = [usuarios EXCEPT ![conta[s]] = roleEns[s]]
    /\ currentRole' = [currentRole EXCEPT ![s] = roleEns[s]]
    /\ pcEns' = [pcEns EXCEPT ![s] = "done"]
    /\ TryStartApp(s)
    /\ UNCHANGED <<andamento, finalizados, proxChave, pcSign, roleSign, roleEns,
                   viewVars, modalVars, finVars, histVars, foraCasos>>

\* The page is loaded again with the session still signed in: the module state is
\* new, onAuthStateChanged fires with the restored user.
RecarregarPagina(s) ==
    /\ pcSign[s] = "done"
    /\ pcEns[s] = "done"
    /\ pcApp[s] = "pronto"
    /\ pcF[s] = "idle"
    /\ currentRole' = [currentRole EXCEPT ![s] = "null"]
    /\ pcEns' = [pcEns EXCEPT ![s] = "get"]
    /\ appStarted' = [appStarted EXCEPT ![s] = FALSE]
    /\ pcApp' = [pcApp EXCEPT ![s] = "off"]
    /\ nStart' = [nStart EXCEPT ![s] = 0]
    /\ nAuth' = [nAuth EXCEPT ![s] = 1]
    /\ linhas' = [linhas EXCEPT ![s] = {}]
    /\ botoes' = [botoes EXCEPT ![s] = FALSE]
    /\ modal' = [modal EXCEPT ![s] = "fechado"]
    /\ processoEditando' = [processoEditando EXCEPT ![s] = 0]
    /\ UNCHANGED <<remoteVars, pcSign, roleSign, roleEns, finVars, histVars,
                   foraCasos>>

\* The page is loaded again with nobody signed in (the reload of App.logout):
\* the module state is new and onAuthStateChanged fires with null.
RecarregarSemSessao(s) ==
    /\ pcSign[s] = "out"
    /\ pcEns[s] = "done"
    /\ pcF[s] = "idle"
    /\ currentRole' = [currentRole EXCEPT ![s] = "null"]
    /\ pcEns' = [pcEns EXCEPT ![s] = "idle"]
    /\ appStarted' = [appStarted EXCEPT ![s] = FALSE]
    /\ pcApp' = [pcApp EXCEPT ![s] = "off"]
    /\ nStart' = [nStart EXCEPT ![s] = 0]
    /\ nAuth' = [nAuth EXCEPT ![s] = 0]
    /\ linhas' = [linhas EXCEPT ![s] = {}]
    /\ botoes' = [botoes EXCEPT ![s] = FALSE]
    /\ modal' = [modal EXCEPT ![s] = "fechado"]
    /\ processoEditando' = [processoEditando EXCEPT ![s] = 0]
    /\ UNCHANGED <<remoteVars, pcSign, roleSign, roleEns, finVars, histVars,
                   foraCasos>>

\* ---------------------------------------------------------------- App
\* App.initialize: ProcessosManager.initialize has loaded the collections and
\* drawn the tables.
ProcessosInitialize(s) ==
    /\ pcApp[s] = "modulos"
    /\ pcApp' = [pcApp EXCEPT ![s] = "pronto"]
    /\ Renderizado(s, andamento)
    /\ UNCHANGED <<remoteVars, authVars, appStarted, nStart, nAuth, modalVars,
                   finVars, histVars, foraCasos>>

\* ---------------------------------------------------- ProcessosManager
\* The tables are drawn and no call of this session is in flight (showLoading
\* covers the page from the click to hideLoading).
PodeClicar(s) == pcApp[s] = "pronto" /\ pcF[s] = "idle"

\* A listener callback, a filter or a tab change calls renderTabelas.
RenderTabelas(s) ==
    /\ pcApp[s] = "pronto"
    /\ \/ linhas[s] # DOMAIN andamento
       \/ botoes[s] # IsGestor(s)
    /\ Renderizado(s, andamento)
    /\ UNCHANGED <<remoteVars, authVars, appVars, modalVars,
                   finVars, histVars, foraCasos>>

\* The edit button of a row: abrirModalProcesso(processo).
AbrirModalEditar(s, id) ==
    /\ PodeClicar(s)
    /\ botoes[s] /\ id \in linhas[s]
    /\ modal[s] = "fechado"
    /\ modal' = [modal EXCEPT ![s] = "aberto"]
    /\ processoEditando' = [processoEditando EXCEPT ![s] = id]
    /\ UNCHANGED <<remoteVars, authVars, appVars, viewVars, finVars, histVars,
                   foraCasos>>

FecharModalProcesso(s) ==
    /\ modal[s] = "aberto"
    /\ pcF[s] = "idle"
    /\ modal' = [modal EXCEPT ![s] = "fechado"]
    /\ processoEditando' = [processoEditando EXCEPT ![s] = 0]
    /\ UNCHANGED <<remoteVars, authVars, appVars, viewVars, finVars, histVars,
                   foraCasos>>

\* salvarProcesso with a successful remote write: updateProcessoAndamento for
\* processoEditando, createProcessoAndamento otherwise; then the modal closes and
\* carregarDados draws the tables again. (A failed write changes nothing.)
SalvarProcesso(s, dados) ==
    /\ modal[s] = "aberto"
    /\ pcF[s] = "idle"
    /\ IF processoEditando[s] # 0
       THEN /\ andamento' = Updates(andamento, processoEditando[s], dados)
            /\ Registrar(s, "updateProcessoAndamento")
            /\ UNCHANGED proxChave
       ELSE /\ proxChave <= MaxChaves
            /\ andamento' = Set(andamento, proxChave, DataWithId(dados, proxChave))
            /\ proxChave' = proxChave + 1
            /\ Registrar(s, "createProcessoAndamento")
    /\ modal' = [modal EXCEPT ![s] = "fechado"]
    /\ processoEditando' = [processoEditando EXCEPT ![s] = 0]
    /\ Renderizado(s, andamento')
    /\ UNCHANGED <<usuarios, finalizados, authVars, appVars, finVars,
                   ultimo, emSequencia, foraCasos>>

\* deletarProcesso(id, false) with a successful remove, then carregarDados.
DeletarProcesso(s, id) ==
    /\ PodeClicar(s)
    /\ botoes[s] /\ id \in linhas[s]
    /\ modal[s] = "fechado"
    /\ andamento' = Remove(andamento, id)
    /\ Registrar(s, "deleteProcessoAndamento")
    /\ Renderizado(s, andamento')
    /\ UNCHANGED <<usuarios, finalizados, proxChave, authVars, appVars,
                   modalVars, finVars, ultimo, emSequencia, foraCasos>>

\* ------------------------------------ DatabaseManager.finalizarProcesso
\* What a call that ends after its delete has done; all of them return
\* {success: true}.
Desfecho(copiou, apagou) ==
    IF copiou THEN (IF apagou THEN "ok" ELSE "delfail")
    ELSE (IF apagou THEN "copyfail" ELSE "bothfail")

Sucessos == {"ok", "delfail", "copyfail", "bothfail"}

\* The finish button of a row: ProcessosManager.finalizarProcesso(id) calls
\* dbManager.finalizarProcesso(id), which awaits getById.
FinalizarProcesso(s, id) ==
    /\ PodeClicar(s)
    /\ botoes[s] /\ id \in linhas[s]
    /\ modal[s] = "fechado"
    /\ pcF' = [pcF EXCEPT ![s] = "get"]
    /\ alvo' = [alvo EXCEPT ![s] = id]
    /\ copia' = [copia EXCEPT ![s] = 0]
    /\ ultimo' = [ultimo EXCEPT ![s] = "none"]
    /\ emSequencia' = [emSequencia EXCEPT ![s] =
                         alvo[s] = id /\ ultimo[s] \in Sucessos]
    /\ Registrar(s, "finalizarProcesso")
    /\ UNCHANGED <<remoteVars, authVars, appVars, viewVars, modalVars, lido,
                   foraCasos>>

\* getById resolves: no record or a failed read returns 'Processo não
\* encontrado'; a record goes on to the copy.
FinalizarLer(s) ==
    /\ pcF[s] = "get"
    /\ \E ok \in BOOLEAN :
         IF ok /\ alvo[s] \in DOMAIN andamento
         THEN /\ lido' = [lido EXCEPT ![s] = andamento[alvo[s]]]
              /\ pcF' = [pcF EXCEPT ![s] = "create"]
              /\ UNCHANGED ultimo
         ELSE /\ pcF' = [pcF EXCEPT ![s] = "idle"]
              /\ ultimo' = [ultimo EXCEPT ![s] = "notfound"]
              /\ UNCHANGED lido
    /\ UNCHANGED <<remoteVars, authVars, appVars, viewVars, modalVars, alvo, copia,
                   emSequencia, escritasUsuario, foraCasos>>

\* processoFinalizado is built and create(PROCESSOS_FINALIZADOS, ...) resolves,
\* written or not: its result is not looked at.
FinalizarCopiar(s) ==
    /\ pcF[s] = "create"
    /\ \E ok \in BOOLEAN :
         IF ok
         THEN /\ proxChave <= MaxChaves
              /\ finalizados' = finalizados \cup
                    {DataWithId(ProcessoFinalizado(lido[s], tick), proxChave)}
              /\ proxChave' = proxChave + 1
              /\ copia' = [copia EXCEPT ![s] = proxChave]
         ELSE UNCHANGED <<finalizados, proxChave, copia>>
    /\ pcF' = [pcF EXCEPT ![s] = "delete"]
    /\ UNCHANGED <<usuarios, andamento, authVars, appVars, viewVars, modalVars,
                   alvo, lido, histVars, foraCasos>>

\* A finalizarProcesso that takes its copy back when the delete fails.
FinalizarComRollback(s) ==
    /\ pcF[s] = "delete"
    /\ \E ok \in BOOLEAN :
         /\ andamento' = IF ok THEN Remove(andamento, alvo[s]) ELSE andamento
         /\ finalizados' = IF ok THEN finalizados
                           ELSE {r \in finalizados : r.id # copia[s]}
         /\ ultimo' = [ultimo EXCEPT ![s] = Desfecho(copia[s] # 0, ok)]
    /\ pcF' = [pcF EXCEPT ![s] = "idle"]
    /\ lido' = [lido EXCEPT ![s] = SemRegistro]
    /\ copia' = [copia EXCEPT ![s] = 0]
    /\ Renderizado(s, andamento')
    /\ UNCHANGED <<usuarios, proxChave, authVars, appVars,
                   modalVars, alvo, emSequencia, escritasUsuario, foraCasos>>

\* delete(PROCESSOS_ANDAMENTO, id) resolves, removed or not: its result is not
\* looked at, {success: true} is returned and the view loads the data again.
FinalizarApagar(s) ==
    /\ pcF[s] = "delete"
    /\ \E ok \in BOOLEAN :
         /\ andamento' = IF ok THEN Remove(andamento, alvo[s]) ELSE andamento
         /\ ultimo' = [ultimo EXCEPT ![s] = Desfecho(copia[s] # 0, ok)]
    /\ pcF' = [pcF EXCEPT ![s] = "idle"]
    /\ lido' = [lido EXCEPT ![s] = SemRegistro]
    /\ copia' = [copia EXCEPT ![s] = 0]
    /\ Renderizado(s, andamento')
    /\ UNCHANGED <<usuarios, finalizados, proxChave, authVars, appVars,
                   modalVars, alvo, emSequencia, escritasUsuario, foraCasos>>

\* ============================================================ backup
\* backup_${today}_${Date.now()}: the local day, the instant, and n for the
\* milliseconds that tell two calls of the same half day apart.
BackupKey(dia, tk, n) == <<dia, tk, n>>

\* The snapshot an earlier page of the gestor created at the start of day 0.
SnapshotAnterior == BackupKey(0, 0, 0)

\* metadata.createdAt of the snapshot with this key
CreatedAt(key) == key[2]

\* _getTodayString: the local date
GetTodayString(tk) == LocalDay(tk)

\* hasBackupToday, given whether the read of the pointer succeeded.
HasBackupToday(ok, tk) ==
    ok /\ lastBackup # NoDate /\ lastBackup = GetTodayString(tk)

\* createBackup up to its first write: today, the timestamp and the key.
IniciaCreateBackup(s, automatic) ==
    /\ nBackups < MaxBackups
    /\ nBackups' = nBackups + 1
    /\ isAutomatic' = [isAutomatic EXCEPT ![s] = automatic]
    /\ today' = [today EXCEPT ![s] = GetTodayString(tick)]
    /\ backupKey' = [backupKey EXCEPT ![s] =
                        BackupKey(GetTodayString(tick), tick, nBackups + 1)]
    /\ autos' = IF automatic
                THEN autos \cup {<<nBackups + 1, GetTodayString(tick)>>}
                ELSE autos
    /\ retorno' = [retorno EXCEPT ![s] = "none"]
    /\ passos' = [passos EXCEPT ![s] = << >>]
    /\ UNCHANGED <<sucessos, limpeza, cutoffString>>
    /\ pcB' = [pcB EXCEPT ![s] = "data"]

\* App.initialize from backupManager.initialize() to this.isInitialized = true:
\* initialize() sets initialized when window.database is there (db);
\* autoBackupIfNeeded() runs up to its await of hasBackupToday, or returns at
\* once when the manager is not initialized or the role is not gestor; the
\* promise it returns is not awaited.
BackupInitialize(s) ==
    /\ pcB[s] = "off"
    /\ \E db \in BOOLEAN :
         /\ initialized' = [initialized EXCEPT ![s] = db]
         /\ IF db /\ IsGestor(s)
            THEN /\ pcB' = [pcB EXCEPT ![s] = "check"]
                 /\ UNCHANGED autoLog
            ELSE /\ pcB' = [pcB EXCEPT ![s] = "idle"]
                 /\ autoLog' = [autoLog EXCEPT ![s] = "retornou"]
    /\ appInit' = [appInit EXCEPT ![s] = TRUE]
    /\ UNCHANGED <<lastBackup, lastBackupKey, backupsData, backupsMeta,
                   isAutomatic, today, backupKey, nBackups, autos, foraBackup>>
    /\ UNCHANGED <<retorno, sucessos, limpeza,
                   cutoffString, passos, alreadyDone>>

\* An autoBackupIfNeeded whose hasBackupToday has no catch: a failed read of
\* the pointer rejects the promise.
AutoBackupIfNeededSemCatch(s) ==
    /\ pcB[s] = "check"
    /\ \E ok \in BOOLEAN :
         IF ~ok
         THEN /\ pcB' = [pcB EXCEPT ![s] = "idle"]
              /\ autoLog' = [autoLog EXCEPT ![s] = "rejeitou"]
              /\ UNCHANGED <<isAutomatic, today, backupKey, nBackups, autos,
                             retorno, sucessos, limpeza,
                             cutoffString, passos, alreadyDone>>
         ELSE IF HasBackupToday(ok, tick)
         THEN /\ pcB' = [pcB EXCEPT ![s] = "idle"]
              /\ alreadyDone' = [alreadyDone EXCEPT ![s] = "true"]
              /\ autoLog' = [autoLog EXCEPT ![s] = "ja feito"]
              /\ UNCHANGED <<isAutomatic, today, backupKey, nBackups, autos,
                             retorno, sucessos, limpeza, cutoffString, passos>>
         ELSE /\ alreadyDone' = [alreadyDone EXCEPT ![s] = "false"]
              /\ IniciaCreateBackup(s, TRUE)
              /\ UNCHANGED autoLog
    /\ UNCHANGED <<lastBackup, lastBackupKey, backupsData, backupsMeta,
                   initialized, appInit, foraBackup>>

\* autoBackupIfNeeded: hasBackupToday resolves (false when the read fails); when
\* it returned true the call logs and returns, otherwise createBackup(true)
\* starts.
AutoBackupIfNeeded(s) ==
    /\ pcB[s] = "check"
    /\ \E ok \in BOOLEAN :
         IF HasBackupToday(ok, tick)
         THEN /\ pcB' = [pcB EXCEPT ![s] = "idle"]
              /\ alreadyDone' = [alreadyDone EXCEPT ![s] = "true"]
              /\ autoLog' = [autoLog EXCEPT ![s] = "ja feito"]
              /\ UNCHANGED <<isAutomatic, today, backupKey, nBackups, autos,
                             retorno, sucessos, limpeza, cutoffString, passos>>
         ELSE /\ alreadyDone' = [alreadyDone EXCEPT ![s] = "false"]
              /\ IniciaCreateBackup(s, TRUE)
              /\ UNCHANGED autoLog
    /\ UNCHANGED <<lastBackup, lastBackupKey, backupsData, backupsMeta,
                   initialized, appInit, foraBackup>>

\* btnBackupManual of a gestor: createBackup(false), which returns a failure at
\* once when the manager is not initialized. The button is disabled while the
\* call runs; the model takes the click only when the automatic capture of the
\* page is not in flight either.
BackupManual(s) ==
    /\ pcB[s] = "idle"
    /\ IsGestor(s)
    /\ IF initialized[s]
       THEN IniciaCreateBackup(s, FALSE)
       ELSE /\ retorno' = [retorno EXCEPT ![s] = "fail"]
            /\ passos' = [passos EXCEPT ![s] = << >>]
            /\ isAutomatic' = [isAutomatic EXCEPT ![s] = FALSE]
            /\ UNCHANGED <<pcB, today, backupKey, nBackups, autos,
                           sucessos, limpeza, cutoffString>>
    /\ UNCHANGED <<lastBackup, lastBackupKey, backupsData, backupsMeta,
                   initialized, autoVars, foraBackup>>

\* createBackup returns: its locals today and backupKey are gone.
FimDeCreateBackup(s) ==
    /\ today' = [today EXCEPT ![s] = 0]
    /\ backupKey' = [backupKey EXCEPT ![s] = << >>]

\* createBackup: set(DATA/key) resolves; a failure ends the call in its catch.
GravarSnapshot(s) ==
    /\ pcB[s] = "data"
    /\ \E ok \in BOOLEAN :
         IF ok
         THEN /\ backupsData' = backupsData \cup {backupKey[s]}
              /\ pcB' = [pcB EXCEPT ![s] = "meta"]
              /\ passos' = [passos EXCEPT ![s] = Append(@, "data")]
              /\ UNCHANGED <<retorno, today, backupKey>>
         ELSE /\ pcB' = [pcB EXCEPT ![s] = "idle"]
              /\ retorno' = [retorno EXCEPT ![s] = "fail"]
              /\ FimDeCreateBackup(s)
              /\ UNCHANGED <<backupsData, passos>>
    /\ UNCHANGED <<lastBackup, lastBackupKey, backupsMeta, initialized,
                   isAutomatic, nBackups, autos, foraBackup>>
    /\ UNCHANGED <<sucessos, limpeza, cutoffString, appInit, alreadyDone>>
    /\ autoLog' = IF isAutomatic[s] /\ retorno'[s] = "fail"
                  THEN [autoLog EXCEPT ![s] = "falha"]
                  ELSE autoLog

\* createBackup: set(METADATA/key) resolves.
GravarMetadata(s) ==
    /\ pcB[s] = "meta"
    /\ \E ok \in BOOLEAN :
         IF ok
         THEN /\ backupsMeta' = backupsMeta \cup {backupKey[s]}
              /\ pcB' = [pcB EXCEPT ![s] = "ptr"]
              /\ passos' = [passos EXCEPT ![s] = Append(@, "meta")]
              /\ UNCHANGED <<retorno, today, backupKey>>
         ELSE /\ pcB' = [pcB EXCEPT ![s] = "idle"]
              /\ retorno' = [retorno EXCEPT ![s] = "fail"]
              /\ FimDeCreateBackup(s)
              /\ UNCHANGED <<backupsMeta, passos>>
    /\ UNCHANGED <<lastBackup, lastBackupKey, backupsData, initialized,
                   isAutomatic, nBackups, autos, foraBackup>>
    /\ UNCHANGED <<sucessos, limpeza, cutoffString, appInit, alreadyDone>>
    /\ autoLog' = IF isAutomatic[s] /\ retorno'[s] = "fail"
                  THEN [autoLog EXCEPT ![s] = "falha"]
                  ELSE autoLog

\* cleanupOldBackups: now minus RETENTION_DAYS (the clock counts half days).
CutoffString(tk) == tk - 2 * RetentionDays

\* A createBackup that goes on to the cleanup when set(LAST_BACKUP) failed.
GravarLastBackupSemCatch(s) ==
    /\ pcB[s] = "ptr"
    /\ \E ok \in BOOLEAN :
         IF ok
         THEN /\ lastBackup' = today[s]
              /\ lastBackupKey' = backupKey[s]
              /\ passos' = [passos EXCEPT ![s] = Append(@, "ptr")]
         ELSE UNCHANGED <<lastBackup, lastBackupKey, passos>>
    /\ pcB' = [pcB EXCEPT ![s] = "cleanup"]
    /\ cutoffString' = [cutoffString EXCEPT ![s] = CutoffString(tick)]
    /\ UNCHANGED <<backupsData, backupsMeta, initialized, retorno,
                   isAutomatic, today, backupKey, nBackups, autos, foraBackup>>
    /\ UNCHANGED <<sucessos, limpeza, appInit, alreadyDone>>
    /\ autoLog' = IF isAutomatic[s] /\ retorno'[s] = "fail"
                  THEN [autoLog EXCEPT ![s] = "falha"]
                  ELSE autoLog

\* createBackup: set(LAST_BACKUP) resolves, and on success cleanupOldBackups
\* runs to its first await, the list of the metadata: it takes its cutoff.
GravarLastBackup(s) ==
    /\ pcB[s] = "ptr"
    /\ \E ok \in BOOLEAN :
         IF ok
         THEN /\ lastBackup' = today[s]
              /\ lastBackupKey' = backupKey[s]
              /\ pcB' = [pcB EXCEPT ![s] = "cleanup"]
              /\ passos' = [passos EXCEPT ![s] = Append(@, "ptr")]
              /\ cutoffString' = [cutoffString EXCEPT ![s] = CutoffString(tick)]
              /\ UNCHANGED <<retorno, today, backupKey>>
         ELSE /\ pcB' = [pcB EXCEPT ![s] = "idle"]
              /\ retorno' = [retorno EXCEPT ![s] = "fail"]
              /\ FimDeCreateBackup(s)
              /\ UNCHANGED <<lastBackup, lastBackupKey, passos, cutoffString>>
    /\ UNCHANGED <<backupsData, backupsMeta, initialized,
                   isAutomatic, nBackups, autos, foraBackup>>
    /\ UNCHANGED <<sucessos, limpeza, appInit, alreadyDone>>
    /\ autoLog' = IF isAutomatic[s] /\ retorno'[s] = "fail"
                  THEN [autoLog EXCEPT ![s] = "falha"]
                  ELSE autoLog

\* A retention two days shorter than RETENTION_DAYS.
AntigosCurto(cutoff) ==
    {k \in backupsMeta : CreatedAt(k) < cutoff + 4}

\* The snapshots cleanupOldBackups removes, those listBackups returns with
\* createdAt < cutoffString.
Antigos(cutoff) == {k \in backupsMeta : CreatedAt(k) < cutoff}

\* createBackup: cleanupOldBackups lists the metadata and removes the data and
\* then the metadata of each old one; a failed list or remove ends it in its
\* catch, with some of the old ones removed (rm) and the data of some more (rd).
\* It never throws, and createBackup returns success.
CleanupOldBackups(s) ==
    /\ pcB[s] = "cleanup"
    /\ \E rm \in SUBSET Antigos(cutoffString[s]) :
         \E rd \in {x \in SUBSET Antigos(cutoffString[s]) : rm \subseteq x} :
            /\ backupsData' = backupsData \ rd
            /\ backupsMeta' = backupsMeta \ rm
            /\ limpeza' = [limpeza EXCEPT ![s] =
                             IF rm = Antigos(cutoffString[s]) THEN "ok"
                             ELSE "falhou"]
    /\ cutoffString' = [cutoffString EXCEPT ![s] = Null]
    /\ pcB' = [pcB EXCEPT ![s] = "idle"]
    /\ UNCHANGED <<lastBackup, lastBackupKey, initialized,
                   isAutomatic, nBackups, autos, foraBackup>>
    /\ retorno' = [retorno EXCEPT ![s] = "success"]
    /\ passos' = [passos EXCEPT ![s] = Append(@, "cleanup")]
    /\ sucessos' = sucessos \cup {today[s]}
    /\ autoLog' = IF isAutomatic[s]
                  THEN [autoLog EXCEPT ![s] = "sucesso"]
                  ELSE autoLog
    /\ UNCHANGED <<appInit, alreadyDone>>
    /\ FimDeCreateBackup(s)

\* The page is loaded again and the app starts again.
ReiniciarApp(s) ==
    /\ pcB[s] # "off"
    /\ pcB' = [pcB EXCEPT ![s] = "off"]
    /\ initialized' = [initialized EXCEPT ![s] = FALSE]
    /\ UNCHANGED <<lastBackup, lastBackupKey, backupsData, backupsMeta,
                   nBackups, autos, foraBackup>>
    /\ retorno' = [retorno EXCEPT ![s] = "none"]
    /\ passos' = [passos EXCEPT ![s] = << >>]
    /\ appInit' = [appInit EXCEPT ![s] = FALSE]
    /\ alreadyDone' = [alreadyDone EXCEPT ![s] = "none"]
    /\ autoLog' = [autoLog EXCEPT ![s] = "none"]
    /\ cutoffString' = [cutoffString EXCEPT ![s] = Null]
    /\ UNCHANGED <<sucessos, limpeza>>
    /\ isAutomatic' = [isAutomatic EXCEPT ![s] = FALSE]
    /\ FimDeCreateBackup(s)

\* ====================================================== specifications
\* The ledger of a browser before its first dashboard load.
AlertaInicial ==
    /\ prazo = [c \in Cases |-> IF c = "c1" THEN CincoDias ELSE UmDia]
    /\ funcionarios = {}
    /\ ledger = {}
    /\ pcA = [t \in Tabs |-> "idle"]
    /\ snapPrazo = [t \in Tabs |-> [c \in Cases |-> NoDate]]
    /\ snapLedger = [t \in Tabs |-> {}]
    /\ hoje = [t \in Tabs |-> 0]
    /\ novos = [t \in Tabs |-> {}]
    /\ idx = [t \in Tabs |-> 0]
    /\ lim = [t \in Tabs |-> "5dias"]
    /\ resultado = [t \in Tabs |-> "none"]
    /\ loads = 0
    /\ enviados = [x \in Envios |-> 0]
    /\ tentados = {}
    /\ suprimidos = {}

\* The case seed.js stores first.
Semente ==
    [sigadoc |-> "sd1", dataInicio |-> DataInicioSemente, status |-> "aberto",
     id |-> 1]

\* The pages of the sessions before anything ran on them.
PaginasNovas ==
    /\ currentRole = [s \in Sessoes |-> "null"]
    /\ roleSign = [s \in Sessoes |-> "null"]
    /\ roleEns = [s \in Sessoes |-> "null"]
    /\ appStarted = [s \in Sessoes |-> FALSE]
    /\ nStart = [s \in Sessoes |-> 0]
    /\ nAuth = [s \in Sessoes |-> 0]
    /\ pcApp = [s \in Sessoes |-> "off"]
    /\ linhas = [s \in Sessoes |-> {}]
    /\ botoes = [s \in Sessoes |-> FALSE]
    /\ modal = [s \in Sessoes |-> "fechado"]
    /\ processoEditando = [s \in Sessoes |-> 0]
    /\ pcF = [s \in Sessoes |-> "idle"]
    /\ alvo = [s \in Sessoes |-> 0]
    /\ lido = [s \in Sessoes |-> SemRegistro]
    /\ copia = [s \in Sessoes |-> 0]
    /\ ultimo = [s \in Sessoes |-> "none"]
    /\ emSequencia = [s \in Sessoes |-> FALSE]
    /\ escritasUsuario = {}

\* A deployment nobody has signed up to yet that already holds a case: runSeed
\* pushes its cases whether or not its user records were written (it catches the
\* errors of the user loop), and _ensureUserRecord expects accounts without a
\* record ("Usuário existe no Auth mas não no DB").
Implantacao ==
    /\ usuarios = [u \in Contas |-> "none"]
    /\ conta = [s \in Sessoes |-> IF s = "s1" THEN "u1" ELSE "u2"]
    /\ pcSign = [s \in Sessoes |-> "out"]
    /\ pcEns = [s \in Sessoes |-> "idle"]
    /\ andamento = (1 :> Semente)
    /\ finalizados = {}
    /\ proxChave = 2

\* No backup manager runs.
\* No App.initialize has reached the backup.
AutoParado ==
    /\ appInit = [s \in Sessoes |-> FALSE]
    /\ alreadyDone = [s \in Sessoes |-> "none"]
    /\ autoLog = [s \in Sessoes |-> "none"]

\* App.initialize has run in every page, and the autoBackupIfNeeded of a gestor
\* found the backup of today.
AutoJaFeito ==
    /\ appInit = [s \in Sessoes |-> TRUE]
    /\ alreadyDone = [s \in Sessoes |-> IF IsGestor(s) THEN "true" ELSE "none"]
    /\ autoLog = [s \in Sessoes |->
                    IF IsGestor(s) THEN "ja feito" ELSE "retornou"]

BackupParado ==
    /\ lastBackup = NoDate
    /\ lastBackupKey = << >>
    /\ backupsData = {}
    /\ backupsMeta = {}
    /\ initialized = [s \in Sessoes |-> FALSE]
    /\ pcB = [s \in Sessoes |-> "off"]
    /\ isAutomatic = [s \in Sessoes |-> FALSE]
    /\ today = [s \in Sessoes |-> 0]
    /\ backupKey = [s \in Sessoes |-> << >>]
    /\ nBackups = 0
    /\ autos = {}
    /\ retorno = [s \in Sessoes |-> "none"]
    /\ sucessos = {}
    /\ limpeza = [s \in Sessoes |-> "none"]
    /\ cutoffString = [s \in Sessoes |-> Null]
    /\ passos = [s \in Sessoes |-> << >>]
    /\ AutoParado

\* No salvarAlertasEnviados was looked at.
\* The user operations with a remote call: the manual backup, the save of the
\* case form and the finish button of a row.
Operacoes == {"backup", "salvar", "finalizar"}
\* The awaits of a call: its remote call, and the carregarDados after it.
Etapas == {"remoto", "recarga"}

\* No operation is in flight and nothing was notified.
ControlesParados ==
    /\ overlay = [s \in Sessoes |-> FALSE]
    /\ btnDisabled = [s \in Sessoes |-> FALSE]
    /\ voo = [s \in Sessoes |-> [o \in Operacoes |-> [e \in Etapas |-> 0]]]
    /\ toast = [s \in Sessoes |-> [o \in Operacoes |-> "none"]]

\* No date helper was called.
DatasParadas ==
    /\ chamada = << >>
    /\ retornou = Null

\* No session has called a user-management method.
SemChamada ==
    [sessao |-> "none", metodo |-> "none", papel |-> "null", erro |-> "none",
     escreveu |-> FALSE]

UsuariosParados ==
    /\ nomes = [u \in Contas |-> 0]
    /\ adm = SemChamada

ExtrasParados == DatasParadas /\ UsuariosParados

\* The modules of the page: dashboard.js, processos.js and equipe.js.
Modulos == {"dashboard", "processos", "equipe"}
Caminhos == {"processosAndamento", "processosFinalizados", "funcionarios"}

\* The module's array of a collection before any load: [].
SemDados == 0 - 1

\* The paths carregarDados of each module calls dbManager.listen with.
Subscricoes(m) ==
    CASE m = "dashboard" -> Caminhos
      [] m = "processos" -> {"processosAndamento", "processosFinalizados"}
      [] m = "equipe" -> {"funcionarios"}

\* The page before App.initialize.
OuvirParado ==
    /\ pcM = [m \in Modulos |-> "off"]
    /\ listeners = [p \in Caminhos |-> "none"]
    /\ remoto = [p \in Caminhos |-> 0]
    /\ visto = [m \in Modulos |-> [p \in Caminhos |-> SemDados]]
    /\ vivos = [p \in Caminhos |-> << >>]

\* No collectAllData has run.
ColetaParada ==
    /\ coleta = [s \in Sessoes |-> << >>]
    /\ lidas = [s \in Sessoes |-> << >>]
    /\ falhas = [s \in Sessoes |-> {}]

PodaParada ==
    /\ submetidos = {}
    /\ gravadoEm = Null

\* ---- the alert ledger of one browser, either variant of the EmailManager
InitAlert ==
    /\ tick = 0
    /\ tz \in {"behind", "utc"}
    /\ variant \in {"owner", "all"}
    /\ AlertaInicial
    /\ PaginasNovas /\ Implantacao
    /\ BackupParado
    /\ PodaParada
    /\ ColetaParada
    /\ OuvirParado
    /\ ControlesParados
    /\ ExtrasParados

NextAlert ==
    \/ \E t \in Tabs : IniciarVerificacao(t)
    \/ \E t \in Tabs : ObterProcessos(t)
    \/ \E t \in Tabs : Notificar(t)
    \/ \E t \in Tabs : AposNotificar(t)
    \/ \E t \in Tabs : Recarregar(t)
    \/ AvancarRelogio
    \/ \E c \in Cases, d \in DueDates \cup {NoDate} : EditarPrazo(c, d)
    \/ \E n \in Names : CadastrarFuncionario(n)

SpecAlert == InitAlert /\ [][NextAlert]_vars

\* A deployment seed.js filled: a gestor, a usuario and a case; the sessions
\* have signed in.
Semeada ==
    /\ usuarios = [u \in Contas |-> IF u = "u1" THEN "gestor" ELSE "usuario"]
    /\ pcSign = [s \in Sessoes |-> "done"]
    /\ pcEns = [s \in Sessoes |-> "done"]
    /\ andamento = (1 :> Semente)
    /\ finalizados = {}
    /\ proxChave = 2

\* ---- the cases, worked on from two pages of the gestor
\* Both pages have signed in, started the app and drawn the tables.
PaginasProntas ==
    /\ roleSign = [s \in Sessoes |-> "null"]
    /\ roleEns = [s \in Sessoes |-> "null"]
    /\ appStarted = [s \in Sessoes |-> TRUE]
    /\ nStart = [s \in Sessoes |-> 1]
    /\ nAuth = [s \in Sessoes |-> 1]
    /\ pcApp = [s \in Sessoes |-> "pronto"]
    /\ linhas = [s \in Sessoes |-> {1}]
    /\ botoes = [s \in Sessoes |-> TRUE]
    /\ modal = [s \in Sessoes |-> "fechado"]
    /\ processoEditando = [s \in Sessoes |-> 0]
    /\ pcF = [s \in Sessoes |-> "idle"]
    /\ alvo = [s \in Sessoes |-> 0]
    /\ lido = [s \in Sessoes |-> SemRegistro]
    /\ copia = [s \in Sessoes |-> 0]
    /\ ultimo = [s \in Sessoes |-> "none"]
    /\ emSequencia = [s \in Sessoes |-> FALSE]
    /\ escritasUsuario = {}

Init ==
    /\ tick = 0
    /\ tz \in {"behind", "utc"}
    /\ variant = "owner"
    /\ AlertaInicial
    /\ PaginasProntas
    /\ currentRole = [s \in Sessoes |-> "gestor"]
    /\ conta = [s \in Sessoes |-> "u1"]
    /\ Semeada
    /\ BackupParado
    /\ PodaParada
    /\ ColetaParada
    /\ OuvirParado
    /\ ControlesParados
    /\ ExtrasParados

Next ==
    \/ \E s \in Sessoes : RenderTabelas(s)
    \/ \E s \in Sessoes, id \in Chaves : AbrirModalEditar(s, id)
    \/ \E s \in Sessoes : FecharModalProcesso(s)
    \/ \E s \in Sessoes, dados \in Formularios : SalvarProcesso(s, dados)
    \/ \E s \in Sessoes, id \in Chaves : DeletarProcesso(s, id)
    \/ \E s \in Sessoes, id \in Chaves : FinalizarProcesso(s, id)
    \/ \E s \in Sessoes : FinalizarLer(s)
    \/ \E s \in Sessoes : FinalizarCopiar(s)
    \/ \E s \in Sessoes : FinalizarApagar(s)
    \/ AvancarRelogio

Spec == Init /\ [][Next]_vars

\* ---- sign-up in a deployment without users, and what the pages then allow
InitAuth ==
    /\ tick = 0
    /\ tz = "utc"
    /\ variant = "owner"
    /\ AlertaInicial
    /\ PaginasNovas
    /\ Implantacao
    /\ BackupParado
    /\ PodaParada
    /\ ColetaParada
    /\ OuvirParado
    /\ ControlesParados
    /\ ExtrasParados

NextAuth ==
    \/ \E s \in Sessoes : Cadastrar(s)
    \/ \E s \in Sessoes : SignupLerUsuarios(s)
    \/ \E s \in Sessoes : SignupGravar(s)
    \/ \E s \in Sessoes : EnsureLerRegistro(s)
    \/ \E s \in Sessoes : EnsureLerUsuarios(s)
    \/ \E s \in Sessoes : EnsureGravar(s)
    \/ \E s \in Sessoes : RecarregarPagina(s)
    \/ \E s \in Sessoes : ProcessosInitialize(s)
    \/ \E s \in Sessoes : RenderTabelas(s)
    \/ \E s \in Sessoes, id \in Chaves : AbrirModalEditar(s, id)
    \/ \E s \in Sessoes : FecharModalProcesso(s)
    \/ \E s \in Sessoes, dados \in Formularios : SalvarProcesso(s, dados)
    \/ \E s \in Sessoes, id \in Chaves : DeletarProcesso(s, id)

SpecAuth == InitAuth /\ [][NextAuth]_vars

\* ---- the daily backup: a page of the gestor and a page of either account
InitBackup ==
    /\ tick = 0
    /\ tz = "utc"
    /\ variant = "owner"
    /\ AlertaInicial
    /\ PaginasProntas
    /\ conta \in {[s \in Sessoes |-> "u1"],
                  [s \in Sessoes |-> IF s = "s1" THEN "u1" ELSE "u2"]}
    /\ Semeada
    /\ currentRole = [s \in Sessoes |-> usuarios[conta[s]]]
    /\ BackupParado
    /\ PodaParada
    /\ ColetaParada
    /\ OuvirParado
    /\ ControlesParados
    /\ ExtrasParados

NextBackup ==
    \/ \E s \in Sessoes : BackupInitialize(s)
    \/ \E s \in Sessoes : AutoBackupIfNeeded(s)
    \/ \E s \in Sessoes : BackupManual(s)
    \/ \E s \in Sessoes : GravarSnapshot(s)
    \/ \E s \in Sessoes : GravarMetadata(s)
    \/ \E s \in Sessoes : GravarLastBackup(s)
    \/ \E s \in Sessoes : CleanupOldBackups(s)
    \/ \E s \in Sessoes : ReiniciarApp(s)
    \/ AvancarRelogio

SpecBackup == InitBackup /\ [][NextBackup]_vars

\* ---- the pruning of the ledger over more than a week
\* The keys an evaluation made at tk can push, with the ISO date of tk: one
\* case at the 5-day threshold is enough to fill the ledger day by day.
ChavesDeHoje(tk) == {Chave(CaseOrder[1], Limiar(CincoDias), UtcDay(tk))}

\* salvarAlertasEnviados(alertas): the filtered list replaces the stored one.
SalvarAlertasEnviados(alertas) ==
    /\ ledger' = AlertasFiltrados(alertas, tick)
    /\ submetidos' = alertas
    /\ gravadoEm' = tick

\* An evaluation in which at least one alert was recorded ends:
\* salvarAlertasEnviados([...alertasEnviados, ...novosAlertas]).
GravarAlertas(nv) ==
    /\ nv # {}
    /\ SalvarAlertasEnviados(ledger \cup nv)
    /\ UNCHANGED <<tick, tz, prazo, funcionarios, variant, pcA,
                   snapPrazo, snapLedger, hoje, novos, idx, lim, resultado,
                   loads, enviados, tentados, suprimidos, caseVars, bkVars, maisVars>>

\* A day passes with no dashboard load that records an alert.
PassarDia ==
    /\ LocalDay(tick) < MaxDiasPoda
    /\ tick' = tick + 2
    /\ UNCHANGED <<tz, alertVars, caseVars, bkVars, podaVars, maisVars>>

InitPoda ==
    /\ tick \in {0, 1}
    /\ tz \in {"behind", "utc"}
    /\ variant = "owner"
    /\ AlertaInicial
    /\ PaginasNovas /\ Implantacao
    /\ BackupParado
    /\ PodaParada
    /\ ColetaParada
    /\ OuvirParado
    /\ ControlesParados
    /\ ExtrasParados

NextPoda ==
    \/ \E nv \in SUBSET ChavesDeHoje(tick) : GravarAlertas(nv)
    \/ PassarDia

SpecPoda == InitPoda /\ [][NextPoda]_vars

\* ================================================================ claims
\* Emails delivered for a case and threshold on a local calendar day.
EnviadosNoDia(c, l, d) ==
    LET RECURSIVE Soma(_)
        Soma(S) == IF S = {} THEN 0
                   ELSE LET x == CHOOSE y \in S : TRUE
                        IN enviados[<<c, l, d, x>>] + Soma(S \ {x})
    IN Soma(DiasIso)

\* An email was delivered for the case and threshold by an evaluation whose key
\* day was dia.
Entregue(c, l, dia) == \E d \in Days : enviados[<<c, l, d, dia>>] > 0

\* C1 (as stated): across all invocations, in every tab, at most one deadline
\* email is sent for each (case, threshold, calendar day).
C1_UmAlertaPorDia ==
    \A c \in Cases, l \in Limiares, d \in Days : EnviadosNoDia(c, l, d) <= 1

\* C9: in the owner variant a key is in novosAlertas or in the stored ledger only
\* if the email of that case, threshold and day was delivered, and the ledger
\* check suppresses an alert only if that email was delivered: an alert whose send
\* or address resolution failed is attempted again by the next evaluation.
C9_ChaveSoComSucesso ==
    variant = "owner" =>
        /\ \A k \in ledger : Entregue(k[1], k[2], k[3])
        /\ \A t \in Tabs : \A k \in novos[t] : Entregue(k[1], k[2], k[3])
        /\ \A x \in suprimidos : Entregue(x[1], x[2], x[3])

\* C9 witness: with no other evaluation in flight, an evaluation is calling
\* notificarAlertaPrazo for an alert that an earlier call failed to deliver on the
\* same key day; no key was recorded for it.
C9_Witness ==
    /\ variant = "owner"
    /\ \E t \in Tabs :
         /\ pcA[t] = "notify"
         /\ <<CaseOrder[idx[t]], lim[t], hoje[t]>> \in tentados
         /\ ~Entregue(CaseOrder[idx[t]], lim[t], hoje[t])
         /\ Chave(CaseOrder[idx[t]], lim[t], hoje[t]) \notin ledger
         /\ \A u \in Tabs \ {t} : pcA[u] = "idle"

\* C10: the ledger check suppresses an alert only on the day of its key: an
\* evaluation passes over a due case only if notificarAlertaPrazo was called for
\* the same case and threshold with the same key day, and calls it whenever the
\* ledger it read holds no key of that case, threshold and day.
C10_SuprimeSoNoDia ==
    /\ suprimidos \subseteq tentados
    /\ \A t \in Tabs : pcA[t] \in {"notify", "sent"} =>
          ~\E k \in snapLedger[t] :
              k[1] = CaseOrder[idx[t]] /\ k[2] = lim[t] /\ k[3] = hoje[t]

\* C10 witness: the ledger holds the key of a case and threshold for day D, and an
\* evaluation with key day D' # D that read this ledger is calling
\* notificarAlertaPrazo for the same case and threshold.
C10_Witness ==
    \E t \in Tabs : \E k \in snapLedger[t] :
        /\ pcA[t] = "notify"
        /\ k \in ledger
        /\ k[1] = CaseOrder[idx[t]] /\ k[2] = lim[t] /\ k[3] # hoje[t]

\* The copy finalizarProcesso writes for the record it read, finalizing at tk:
\* the fields of the case, and the three computed ones.
CopiaDe(r, processo, tk) ==
    /\ r.sigadoc = processo.sigadoc
    /\ r.dataInicio = processo.dataInicio
    /\ r.status = processo.status
    /\ r.dataFinalizacao = UtcDay(tk)
    /\ r.diasCorridos = CalcularDiasCorridos(processo.dataInicio, UtcDay(tk))
    /\ r.diasUteis = CalcularDiasUteis(processo.dataInicio, UtcDay(tk))

C4_NaoVoltaAoAndamento ==
    \A s \in Sessoes : ultimo[s] = "ok" => alvo[s] \notin DOMAIN andamento

\* C5 (as stated): a finalizarProcesso called after the session's previous call for
\* the same id returned success finds no record: it does not get to the copy and
\* ends with 'Processo não encontrado'.
C5_SegundaNaoEncontra ==
    \A s \in Sessoes : emSequencia[s] =>
        /\ pcF[s] \in {"get", "idle"}
        /\ pcF[s] = "idle" => ultimo[s] = "notfound"

\* C6: the step of finalizarProcesso whose delete fails after the copy was written
\* changes neither collection: the in-progress record stays, the copy stays in
\* the finalized collection, and the call ends there.
C6_SemRollback ==
    [][\A s \in Sessoes :
         (pcF[s] = "delete" /\ copia[s] # 0 /\ ultimo'[s] = "delfail") =>
             /\ andamento' = andamento
             /\ finalizados' = finalizados
             /\ \E r \in finalizados' : r.id = copia[s]
             /\ pcF'[s] = "idle"
    ]_vars

\* C6 witness: a call ended with its copy written and its delete failed, and the
\* case is in both collections.
C6_Witness ==
    \E s \in Sessoes :
        /\ pcF[s] = "idle" /\ ultimo[s] = "delfail"
        /\ alvo[s] \in DOMAIN andamento
        /\ \E r \in finalizados : r.sigadoc = andamento[alvo[s]].sigadoc

\* C7 (as stated): the only account created so far in a deployment that had no
\* user record is gestor once its sign-up and its auth-state callback are done.
C7_PrimeiraContaGestor ==
    \A s \in Sessoes :
        (/\ pcSign[s] = "done" /\ pcEns[s] = "done"
         /\ \A o \in Sessoes \ {s} : pcSign[o] = "out")
        => usuarios[conta[s]] = "gestor"

\* C8 (as stated): no session calls createProcessoAndamento,
\* updateProcessoAndamento, deleteProcessoAndamento, deleteProcessoFinalizado or
\* finalizarProcesso while its role is usuario.
C8_UsuarioNaoEscreve == escritasUsuario = {}

\* C2 (as stated): on each local calendar day autoBackupIfNeeded calls
\* createBackup(true) at most once, all sessions together.
C2_UmBackupAutomaticoPorDia ==
    \A d \in Days : Cardinality({a \in autos : a[2] = d}) <= 1

\* ------------------------------------------------------ SpecColeta
\* BACKUP_CONFIG.PATHS_TO_BACKUP
PathsToBackup ==
    <<"processosAndamento", "processosFinalizados", "funcionarios", "usuarios">>

\* snapshot.exists() of get(ref(db, path))
Existe(path) ==
    CASE path = "processosAndamento" -> DOMAIN andamento # {}
      [] path = "processosFinalizados" -> finalizados # {}
      [] path = "funcionarios" -> funcionarios # {}
      [] path = "usuarios" -> DOMAIN usuarios # {}

\* snapshot.val() of get(ref(db, path))
Val(path) ==
    CASE path = "processosAndamento" -> andamento
      [] path = "processosFinalizados" -> finalizados
      [] path = "funcionarios" -> funcionarios
      [] path = "usuarios" -> usuarios

\* data[path] = null
EntradaNula == <<"null">>

\* data[path] after the get of the path resolved (ok) or rejected.
Entrada(path, ok) ==
    IF ok /\ Existe(path) THEN <<"val", Val(path)>> ELSE EntradaNula

\* createBackup(false) of a gestor up to the first get of collectAllData.
IniciarColeta(s) ==
    /\ pcB[s] = "idle"
    /\ initialized[s]
    /\ IsGestor(s)
    /\ nBackups < MaxBackups
    /\ pcB' = [pcB EXCEPT ![s] = "collect"]
    /\ isAutomatic' = [isAutomatic EXCEPT ![s] = FALSE]
    /\ today' = [today EXCEPT ![s] = GetTodayString(tick)]
    /\ retorno' = [retorno EXCEPT ![s] = "none"]
    /\ passos' = [passos EXCEPT ![s] = << >>]
    /\ coleta' = [coleta EXCEPT ![s] = << >>]
    /\ lidas' = [lidas EXCEPT ![s] = <<PathsToBackup[1]>>]
    /\ falhas' = [falhas EXCEPT ![s] = {}]
    /\ UNCHANGED <<lastBackup, lastBackupKey, backupsData, backupsMeta,
                   initialized, backupKey, nBackups, autos, sucessos, limpeza,
                   cutoffString,
                   autoVars, tick, tz, alertVars, caseVars, podaVars,
                   ouvVars, ctlVars, extraVars>>

\* The step of collectAllData that aborts the capture when a get rejects.
ColetarCaminhoAbortando(s) ==
    /\ pcB[s] = "collect"
    /\ LET path == PathsToBackup[Len(lidas[s])] IN
       \E ok \in BOOLEAN :
          /\ coleta' = [coleta EXCEPT ![s] = (path :> Entrada(path, ok)) @@ @]
          /\ falhas' = [falhas EXCEPT ![s] = IF ok THEN @ ELSE @ \cup {path}]
          /\ IF ~ok
             THEN /\ pcB' = [pcB EXCEPT ![s] = "idle"]
                  /\ retorno' = [retorno EXCEPT ![s] = "fail"]
                  /\ UNCHANGED <<lidas, backupKey, nBackups>>
             ELSE IF Len(lidas[s]) < Len(PathsToBackup)
             THEN /\ lidas' = [lidas EXCEPT ![s] =
                                 Append(@, PathsToBackup[Len(@) + 1])]
                  /\ UNCHANGED <<pcB, backupKey, nBackups, retorno>>
             ELSE /\ pcB' = [pcB EXCEPT ![s] = "data"]
                  /\ nBackups' = nBackups + 1
                  /\ backupKey' = [backupKey EXCEPT ![s] =
                                      BackupKey(today[s], tick, nBackups + 1)]
                  /\ UNCHANGED <<lidas, retorno>>
    /\ UNCHANGED <<lastBackup, lastBackupKey, backupsData, backupsMeta,
                   initialized, isAutomatic, today, autos,
                   sucessos, limpeza, cutoffString, passos, autoVars,
                   tick, tz, alertVars, caseVars, podaVars, ouvVars, ctlVars, extraVars>>

\* collectAllData: the get of the current path resolves or rejects, data[path]
\* is set, and the loop issues the get of the next path; after the last path
\* createBackup builds the snapshot and its key and issues set(DATA/key).
ColetarCaminho(s) ==
    /\ pcB[s] = "collect"
    /\ LET path == PathsToBackup[Len(lidas[s])] IN
       \E ok \in BOOLEAN :
          /\ coleta' = [coleta EXCEPT ![s] = (path :> Entrada(path, ok)) @@ @]
          /\ falhas' = [falhas EXCEPT ![s] = IF ok THEN @ ELSE @ \cup {path}]
    /\ IF Len(lidas[s]) < Len(PathsToBackup)
       THEN /\ lidas' = [lidas EXCEPT ![s] =
                           Append(@, PathsToBackup[Len(@) + 1])]
            /\ UNCHANGED <<pcB, backupKey, nBackups>>
       ELSE /\ pcB' = [pcB EXCEPT ![s] = "data"]
            /\ nBackups' = nBackups + 1
            /\ backupKey' = [backupKey EXCEPT ![s] =
                                BackupKey(today[s], tick, nBackups + 1)]
            /\ UNCHANGED lidas
    /\ UNCHANGED <<lastBackup, lastBackupKey, backupsData, backupsMeta,
                   initialized, isAutomatic, today, autos,
                   retorno, sucessos, limpeza, cutoffString, passos, autoVars,
                   tick, tz, alertVars, caseVars, podaVars, ouvVars, ctlVars, extraVars>>

\* Two started pages, of the gestor and of a gestor or a plain user, with
\* SnapshotAnterior in the store.
InitColeta ==
    /\ tick = 0
    /\ tz = "utc"
    /\ variant = "owner"
    /\ AlertaInicial
    /\ PaginasProntas
    /\ conta \in {[s \in Sessoes |-> "u1"],
                  [s \in Sessoes |-> IF s = "s1" THEN "u1" ELSE "u2"]}
    /\ Semeada
    /\ currentRole = [s \in Sessoes |-> usuarios[conta[s]]]
    /\ PodaParada
    /\ ColetaParada
    /\ OuvirParado
    /\ ControlesParados
    /\ ExtrasParados
    /\ lastBackup = 0
    /\ lastBackupKey = SnapshotAnterior
    /\ backupsData = {SnapshotAnterior}
    /\ backupsMeta = {SnapshotAnterior}
    /\ initialized = [s \in Sessoes |-> TRUE]
    /\ pcB = [s \in Sessoes |-> "idle"]
    /\ isAutomatic = [s \in Sessoes |-> FALSE]
    /\ today = [s \in Sessoes |-> 0]
    /\ backupKey = [s \in Sessoes |-> << >>]
    /\ nBackups = 0
    /\ autos = {}
    /\ retorno = [s \in Sessoes |-> "none"]
    /\ sucessos = {}
    /\ limpeza = [s \in Sessoes |-> "none"]
    /\ cutoffString = [s \in Sessoes |-> Null]
    /\ passos = [s \in Sessoes |-> << >>]
    /\ AutoJaFeito

NextColeta ==
    \/ \E s \in Sessoes : IniciarColeta(s)
    \/ \E s \in Sessoes : ColetarCaminho(s)
    \/ \E s \in Sessoes : GravarSnapshot(s)
    \/ \E s \in Sessoes : GravarMetadata(s)
    \/ \E s \in Sessoes : GravarLastBackup(s)
    \/ \E s \in Sessoes : CleanupOldBackups(s)

SpecColeta == InitColeta /\ [][NextColeta]_vars

\* ------------------------------------------------------- SpecOuvir
foraOuvir == <<clockVars, alertVars, caseVars, bkVars, podaVars, colVars,
              ctlVars, extraVars>>

\* App.initialize: Promise.all starts initialize of the modules, each up to the
\* await of its gets in carregarDados.
IniciarModulos ==
    /\ \A m \in Modulos : pcM[m] = "off"
    /\ pcM' = [m \in Modulos |-> "lendo"]
    /\ UNCHANGED <<listeners, remoto, visto, vivos, foraOuvir>>

\* onValue without the removeListener before it.
ListenSemRemover(p, m) == Append(vivos[p], m)

\* DatabaseManager.removeListener(path): the live subscriptions of the path
\* after it. The function stored in listeners[path] unsubscribes the
\* subscription of the last listen call on the path.
RemoveListener(p) ==
    IF listeners[p] = "none" THEN vivos[p]
    ELSE SubSeq(vivos[p], 1, Len(vivos[p]) - 1)

\* DatabaseManager.listen(path, callback) with the callback of module m: the
\* live subscriptions of the path after removeListener and onValue.
Listen(p, m) == Append(RemoveListener(p), m)

\* carregarDados of a module after its gets resolved: the collections whose get
\* succeeded (oks) are assigned, then dbManager.listen is called for each path
\* of the module, and initialize draws the module. listen removes the listener
\* the path has and stores the new one in listeners[path].
CarregarDados(m) ==
    /\ pcM[m] = "lendo"
    /\ \E oks \in SUBSET Subscricoes(m) :
         visto' = [visto EXCEPT ![m] =
                     [p \in Caminhos |-> IF p \in oks THEN remoto[p] ELSE @[p]]]
    /\ vivos' = [p \in Caminhos |->
                   IF p \in Subscricoes(m) THEN Listen(p, m) ELSE vivos[p]]
    /\ listeners' = [p \in Caminhos |->
                       IF p \in Subscricoes(m) THEN m ELSE listeners[p]]
    /\ pcM' = [pcM EXCEPT ![m] = "ouvindo"]
    /\ UNCHANGED <<remoto, foraOuvir>>

\* salvarProcesso, finalizarProcesso and deletarProcesso of the process tables
\* and the saves of the team view end with `await this.carregarDados()`: the
\* module loads again, up to the await of its gets. The dashboard loads once.
RecarregarDados(m) ==
    /\ m \in {"processos", "equipe"}
    /\ pcM[m] = "ouvindo"
    /\ pcM' = [pcM EXCEPT ![m] = "lendo"]
    /\ UNCHANGED <<listeners, remoto, visto, vivos, foraOuvir>>

\* Another page or the console changes a collection in the remote store.
MudancaRemota(p) ==
    /\ remoto[p] < MaxVersao
    /\ remoto' = [remoto EXCEPT ![p] = @ + 1]
    /\ UNCHANGED <<pcM, listeners, visto, vivos, foraOuvir>>

\* The modules with a live subscription on the path.
Inscritos(p) == {vivos[p][i] : i \in 1..Len(vivos[p])}

\* onValue of the live subscriptions of a path fires: each callback assigns the
\* new contents to its module and draws it.
Entregar(p) ==
    /\ \E m \in Inscritos(p) : visto[m][p] # remoto[p]
    /\ visto' = [m \in Modulos |->
                   IF m \in Inscritos(p) THEN [visto[m] EXCEPT ![p] = remoto[p]]
                   ELSE visto[m]]
    /\ UNCHANGED <<pcM, listeners, remoto, vivos, foraOuvir>>

\* App.logout: removeListener of every path of listeners, then the page is
\* loaded again.
Logout ==
    /\ \A m \in Modulos : pcM[m] = "ouvindo"
    /\ vivos' = [p \in Caminhos |-> RemoveListener(p)]
    /\ listeners' = [p \in Caminhos |-> "none"]
    /\ pcM' = [m \in Modulos |-> "off"]
    /\ visto' = [m \in Modulos |-> [p \in Caminhos |-> SemDados]]
    /\ UNCHANGED <<remoto, foraOuvir>>

InitOuvir ==
    /\ tick = 0
    /\ tz = "utc"
    /\ variant = "owner"
    /\ AlertaInicial
    /\ PaginasNovas /\ Implantacao
    /\ BackupParado
    /\ PodaParada
    /\ ColetaParada
    /\ OuvirParado
    /\ ControlesParados
    /\ ExtrasParados

NextOuvir ==
    \/ IniciarModulos
    \/ \E m \in Modulos : CarregarDados(m)
    \/ \E m \in Modulos : RecarregarDados(m)
    \/ \E p \in Caminhos : MudancaRemota(p)
    \/ \E p \in Caminhos : Entregar(p)
    \/ Logout

\* The gets of carregarDados resolve, and the remote store delivers every
\* change to the listeners it has.
SpecOuvir ==
    /\ InitOuvir
    /\ [][NextOuvir]_vars
    /\ \A m \in Modulos : WF_vars(CarregarDados(m))
    /\ \A p \in Caminhos : WF_vars(Entregar(p))

\* --------------------------------------------------- SpecControles
foraControles == <<clockVars, alertVars, caseVars, bkVars, podaVars, colVars,
                   ouvVars, extraVars>>

\* The calls of an operation a page has in flight.
EmVoo(s, o) == voo[s][o]["remoto"] + voo[s][o]["recarga"]

\* The active loading overlay lies over the page and takes the clicks.
OverlayCobre(s) == overlay[s]

\* The control of an operation takes a click.
Utilizavel(s, o) ==
    /\ ~OverlayCobre(s)
    /\ o = "backup" => ~btnDisabled[s]

\* A click handler of btnBackupManual that leaves the button enabled.
ClicarSemDesabilitar(s, o) ==
    /\ Utilizavel(s, o)
    /\ EmVoo(s, o) < MaxEmVoo
    /\ o = "backup" => IsGestor(s)
    /\ voo' = [voo EXCEPT ![s][o]["remoto"] = @ + 1]
    /\ toast' = [toast EXCEPT ![s][o] = "none"]
    /\ overlay' = [overlay EXCEPT ![s] = IF o = "backup" THEN @ ELSE TRUE]
    /\ UNCHANGED <<btnDisabled, foraControles>>

\* The click (the submit of the form, the confirm of the finish button) up to
\* the await of the remote call: the handler of btnBackupManual of a gestor
\* disables the button, salvarProcesso and finalizarProcesso call showLoading.
Clicar(s, o) ==
    /\ Utilizavel(s, o)
    /\ EmVoo(s, o) < MaxEmVoo
    /\ o = "backup" => IsGestor(s)
    /\ voo' = [voo EXCEPT ![s][o]["remoto"] = @ + 1]
    /\ toast' = [toast EXCEPT ![s][o] = "none"]
    /\ IF o = "backup"
       THEN /\ btnDisabled' = [btnDisabled EXCEPT ![s] = TRUE]
            /\ UNCHANGED overlay
       ELSE /\ overlay' = [overlay EXCEPT ![s] = TRUE]
            /\ UNCHANGED btnDisabled
    /\ UNCHANGED foraControles

\* The remote call of the operation returns its result. The backup handler
\* notifies and enables the button. salvarProcesso and finalizarProcesso
\* notify; on success they call carregarDados, which calls showLoading and
\* awaits its gets; otherwise their finally calls hideLoading.
Resolver(s, o) ==
    /\ voo[s][o]["remoto"] > 0
    /\ \E ok \in BOOLEAN :
         /\ toast' = [toast EXCEPT ![s][o] = IF ok THEN "success" ELSE "error"]
         /\ IF o = "backup"
            THEN /\ btnDisabled' = [btnDisabled EXCEPT ![s] = FALSE]
                 /\ voo' = [voo EXCEPT ![s][o]["remoto"] = @ - 1]
                 /\ UNCHANGED overlay
            ELSE /\ overlay' = [overlay EXCEPT ![s] = ok]
                 /\ voo' = [voo EXCEPT ![s][o] =
                              [remoto |-> @["remoto"] - 1,
                               recarga |-> @["recarga"] + (IF ok THEN 1 ELSE 0)]]
                 /\ UNCHANGED btnDisabled
    /\ UNCHANGED foraControles

\* The gets of the carregarDados after a save or a finish resolve: its finally
\* and then the finally of the operation call hideLoading.
Recarregado(s, o) ==
    /\ voo[s][o]["recarga"] > 0
    /\ voo' = [voo EXCEPT ![s][o]["recarga"] = @ - 1]
    /\ overlay' = [overlay EXCEPT ![s] = FALSE]
    /\ UNCHANGED <<btnDisabled, toast, foraControles>>

\* Two started pages, of the gestor and of a gestor or a plain user.
InitControles ==
    /\ tick = 0
    /\ tz = "utc"
    /\ variant = "owner"
    /\ AlertaInicial
    /\ PaginasProntas
    /\ conta \in {[s \in Sessoes |-> "u1"],
                  [s \in Sessoes |-> IF s = "s1" THEN "u1" ELSE "u2"]}
    /\ Semeada
    /\ currentRole = [s \in Sessoes |-> usuarios[conta[s]]]
    /\ BackupParado
    /\ PodaParada
    /\ ColetaParada
    /\ OuvirParado
    /\ ControlesParados
    /\ ExtrasParados

NextControles ==
    \/ \E s \in Sessoes, o \in Operacoes : Clicar(s, o)
    \/ \E s \in Sessoes, o \in Operacoes : Resolver(s, o)
    \/ \E s \in Sessoes, o \in Operacoes : Recarregado(s, o)

SpecControles == InitControles /\ [][NextControles]_vars

\* ---------------------------------------------------- SpecRetencao
\* Days pass with no page doing anything: two days, or RETENTION_DAYS - 1 days.
PassarDias(d) ==
    /\ LocalDay(tick + 2 * d) <= MaxDiasRetencao
    /\ tick' = tick + 2 * d
    /\ UNCHANGED <<tz, alertVars, caseVars, bkVars, podaVars, maisVars>>

\* Two pages of the gestor, started, with SnapshotAnterior in the store.
InitRetencao ==
    /\ tick = 0
    /\ tz = "utc"
    /\ variant = "owner"
    /\ AlertaInicial
    /\ PaginasProntas
    /\ conta = [s \in Sessoes |-> "u1"]
    /\ Semeada
    /\ currentRole = [s \in Sessoes |-> usuarios[conta[s]]]
    /\ PodaParada
    /\ ColetaParada
    /\ OuvirParado
    /\ ControlesParados
    /\ ExtrasParados
    /\ lastBackup = 0
    /\ lastBackupKey = SnapshotAnterior
    /\ backupsData = {SnapshotAnterior}
    /\ backupsMeta = {SnapshotAnterior}
    /\ initialized = [s \in Sessoes |-> TRUE]
    /\ pcB = [s \in Sessoes |-> "idle"]
    /\ isAutomatic = [s \in Sessoes |-> FALSE]
    /\ today = [s \in Sessoes |-> 0]
    /\ backupKey = [s \in Sessoes |-> << >>]
    /\ nBackups = 0
    /\ autos = {}
    /\ retorno = [s \in Sessoes |-> "none"]
    /\ sucessos = {}
    /\ limpeza = [s \in Sessoes |-> "none"]
    /\ cutoffString = [s \in Sessoes |-> Null]
    /\ passos = [s \in Sessoes |-> << >>]
    /\ AutoJaFeito

NextRetencao ==
    \/ \E s \in Sessoes : BackupManual(s)
    \/ \E s \in Sessoes : GravarSnapshot(s)
    \/ \E s \in Sessoes : GravarMetadata(s)
    \/ \E s \in Sessoes : GravarLastBackup(s)
    \/ \E s \in Sessoes : CleanupOldBackups(s)
    \/ \E d \in {2, RetentionDays - 1} : PassarDias(d)

SpecRetencao == InitRetencao /\ [][NextRetencao]_vars

C12_SoCincoOuUm ==
    [][/\ \A t \in Tabs :
            (pcA'[t] = "notify" /\ pcA[t] # "notify") =>
                LET c == CaseOrder[idx'[t]]
                    dias == DiasParaPrazo(snapPrazo'[t][c], tick)
                IN /\ snapPrazo'[t][c] # NoDate
                   /\ dias \in {CincoDias, UmDia}
                   /\ lim'[t] = Limiar(dias)
                   /\ tick' = tick
       /\ \A e \in Envios :
            enviados'[e] # enviados[e] =>
                \E t \in Tabs : /\ pcA[t] = "notify"
                                /\ e[1] = CaseOrder[idx[t]]
                                /\ e[2] = lim[t]
       /\ \A t \in Tabs :
            novos'[t] \ novos[t] # {} =>
                /\ pcA[t] = "sent"
                /\ novos'[t] \ novos[t] = {Chave(CaseOrder[idx[t]], lim[t], hoje[t])}
       /\ ledger' \subseteq tentados'
      ]_vars

\* C12 witness: an evaluation that read case c1 with no due date or with days
\* remaining other than 5 and 1 has passed it over, is calling
\* notificarAlertaPrazo for c2, and no alert of c1 was ever tried or delivered.
C12_Witness ==
    \E t \in Tabs :
        /\ pcA[t] = "notify"
        /\ idx[t] = 2
        /\ DiasParaPrazo(snapPrazo[t][CaseOrder[1]], tick) \notin {CincoDias, UmDia}
        /\ \A x \in tentados : x[1] # CaseOrder[1]
        /\ \A e \in Envios : e[1] = CaseOrder[1] => enviados[e] = 0
        /\ \A k \in ledger : k[1] # CaseOrder[1]

\* C13 (as stated): once a createBackup stamped with a local day has returned
\* success, hasBackupToday (its read succeeding) gives true for the rest of that
\* local day: the Last-Backup Pointer exists and holds that day.
C13_VerdadeiroAteOFimDoDia ==
    \A d \in sucessos :
        d = GetTodayString(tick) => HasBackupToday(TRUE, tick)

C15_LimpezaDepoisDasEscritas ==
    \A s \in Sessoes :
       /\ retorno[s] = "success" =>
             passos[s] = <<"data", "meta", "ptr", "cleanup">>
       /\ retorno[s] = "fail" =>
             passos[s] \in {<< >>, <<"data">>, <<"data", "meta">>}
       /\ (pcB[s] = "idle" /\ passos[s] # << >>) =>
             retorno[s] = (IF Len(passos[s]) = 4 THEN "success" ELSE "fail")

\* One session's createBackup returned success while the other's failed at
\* the write of the pointer.
C15_Witness ==
    \E s, r \in Sessoes :
       /\ retorno[s] = "success"
       /\ passos[s] = <<"data", "meta", "ptr", "cleanup">>
       /\ retorno[r] = "fail"
       /\ passos[r] = <<"data", "meta">>

\* C16: collectAllData issues the reads in the configured order and goes on
\* after a read that failed; the entry of a path whose read failed is null;
\* once collectAllData has returned its result has exactly one entry for each
\* configured collection, and a failed read never ends the capture: it goes on
\* to the write of the snapshot.
C16_ColetaTolerante ==
    \A s \in Sessoes :
       /\ lidas[s] = SubSeq(PathsToBackup, 1, Len(lidas[s]))
       /\ \A p \in falhas[s] : p \in DOMAIN coleta[s] /\ coleta[s][p] = EntradaNula
       /\ pcB[s] = "collect" =>
             /\ retorno[s] = "none"
             /\ DOMAIN coleta[s] =
                   {PathsToBackup[i] : i \in 1..(Len(lidas[s]) - 1)}
       /\ (lidas[s] # << >> /\ pcB[s] # "collect") =>
             /\ lidas[s] = PathsToBackup
             /\ DOMAIN coleta[s] =
                   {PathsToBackup[i] : i \in 1..Len(PathsToBackup)}
             /\ Cardinality(DOMAIN coleta[s]) = Len(PathsToBackup)

\* The read of the first collection failed, the other three were read and
\* the snapshot of this capture is in the store.
C16_Witness ==
    \E s \in Sessoes :
       /\ pcB[s] = "meta"
       /\ backupKey[s] \in backupsData
       /\ lidas[s] = PathsToBackup
       /\ falhas[s] = {PathsToBackup[1]}
       /\ coleta[s][PathsToBackup[1]] = EntradaNula
       /\ coleta[s][PathsToBackup[4]] = <<"val", usuarios>>

\* C17: a capture of autoBackupIfNeeded is in flight or was made only in a
\* page whose backup manager is initialized, whose role is gestor and whose
\* hasBackupToday returned false; the promise of autoBackupIfNeeded is never
\* rejected, a failed capture is logged; and App.initialize has completed
\* whenever the pointer check or the capture of autoBackupIfNeeded is pending.
C17_AutoSoQuandoPreciso ==
    \A s \in Sessoes :
       /\ (isAutomatic[s] /\ pcB[s] \in {"data", "meta", "ptr", "cleanup"}) =>
             initialized[s] /\ IsGestor(s) /\ alreadyDone[s] = "false"
       /\ alreadyDone[s] # "none" => initialized[s] /\ IsGestor(s)
       /\ alreadyDone[s] = "true" => ~isAutomatic[s]
       /\ autoLog[s] # "rejeitou"
       /\ (isAutomatic[s] /\ retorno[s] = "fail") => autoLog[s] = "falha"
       /\ (isAutomatic[s] /\ retorno[s] = "success") => autoLog[s] = "sucesso"
       /\ pcB[s] # "off" => appInit[s]
       /\ autoLog[s] = "none" =>
             \/ pcB[s] = "off"
             \/ pcB[s] = "check"
             \/ isAutomatic[s] /\ pcB[s] \in {"data", "meta", "ptr", "cleanup"}

\* The page of the gestor is initialized while its automatic capture is at the
\* write of the snapshot, after a pointer check that failed and was taken as
\* no backup today though the pointer has today's date, written by the
\* automatic capture of the other page.
C17_Witness ==
    \E s, r \in Sessoes :
       /\ appInit[s]
       /\ isAutomatic[s]
       /\ pcB[s] = "data"
       /\ alreadyDone[s] = "false"
       /\ autoLog[s] = "none"
       /\ lastBackup = GetTodayString(tick)
       /\ autoLog[r] = "sucesso"
       /\ appInit[r]

\* C18: a module that subscribed to a collection and does not hold its current
\* contents eventually holds and has drawn them, or the page has logged out.
C18_TodosOsInscritosRecebem ==
    \A m \in Modulos : \A p \in Subscricoes(m) :
       (pcM[m] = "ouvindo" /\ visto[m][p] # remoto[p])
          ~> (visto[m][p] = remoto[p] \/ pcM[m] = "off")

\* C19: a user action is abandoned at the DatabaseManager operation that met a
\* remote failure: no finalizarProcesso whose create of the finalized copy
\* failed has gone on to issue its delete and ended.
C19_FalhaAbandonaAcao ==
    \A s \in Sessoes : ultimo[s] \notin {"copyfail", "bothfail"}

Datas == (0 - MaxData) .. MaxData

\* diasParaPrazo(dataFinal) called now.
ChamarDiasParaPrazo(dataFinal) ==
    /\ chamada' = <<"diasParaPrazo", dataFinal, tick>>
    /\ retornou' = DiasParaPrazo(dataFinal, tick)
    /\ UNCHANGED <<clockVars, alertVars, caseVars, bkVars, podaVars,
                   colVars, ouvVars, ctlVars, admVars>>

\* dbManager.calcularDiasUteis(dataInicio, dataFim)
ChamarCalcularDiasUteis(dataInicio, dataFim) ==
    /\ chamada' = <<"calcularDiasUteis", dataInicio, dataFim>>
    /\ retornou' = CalcularDiasUteis(dataInicio, dataFim)
    /\ UNCHANGED <<clockVars, alertVars, caseVars, bkVars, podaVars,
                   colVars, ouvVars, ctlVars, admVars>>

InitDatas ==
    /\ tick = 0
    /\ tz \in {"behind", "utc", "adianta", "atrasa"}
    /\ variant = "owner"
    /\ AlertaInicial
    /\ PaginasNovas /\ Implantacao
    /\ BackupParado
    /\ PodaParada
    /\ ColetaParada
    /\ OuvirParado
    /\ ControlesParados
    /\ DatasParadas
    /\ UsuariosParados

NextDatas ==
    \/ \E d \in Datas \cup {NoDate} : ChamarDiasParaPrazo(d)
    \/ \E a, b \in Datas : ChamarCalcularDiasUteis(a, b)
    \/ AvancarRelogio

SpecDatas == InitDatas /\ [][NextDatas]_vars

\* C21: diasParaPrazo(d), evaluated on local calendar day t, returns the signed
\* number of calendar days from t to d (0 iff d = t, negative iff d < t,
\* positive iff d > t), and null when no due date is set.
C21_DiasAteOPrazo ==
    (chamada # << >> /\ chamada[1] = "diasParaPrazo") =>
        LET d == chamada[2]
            t == LocalDay(chamada[3])
        IN IF d = NoDate THEN retornou = Null
           ELSE /\ retornou = d - t
                /\ retornou = 0 <=> d = t
                /\ retornou < 0 <=> d < t
                /\ retornou > 0 <=> d > t

\* C22: calcularDiasUteis(start, end) returns the number of calendar days of
\* start .. end that are neither Saturday nor Sunday: 1 for Monday 2024-01-08
\* alone, 0 for Saturday 2024-01-06 to Sunday 2024-01-07.
C22_DiasUteisDoIntervalo ==
    (chamada # << >> /\ chamada[1] = "calcularDiasUteis") =>
        LET inicio == chamada[2]
            fim == chamada[3]
            Util(d) == (d + 70) % 7 < 5
        IN retornou = Cardinality({d \in inicio .. fim : Util(d)})

\* ================================================== user management
\* The roles the select of the users table offers.
Papeis == {"gestor", "usuario"}

foraUsuarios == <<tick, tz, conta, alertVars, bkVars, podaVars, colVars, ouvVars,
                  ctlVars, datVars, andamento, finalizados, proxChave, authVars,
                  appVars, viewVars, modalVars, finVars, histVars>>

\* The result of a user-management call of session s.
Resultado(s, metodo, erro, escreveu) ==
    adm' = [sessao |-> s, metodo |-> metodo, papel |-> currentRole[s],
            erro |-> erro, escreveu |-> escreveu]

\* firebase update(ref(usuarios/uid), {role}): a node that does not exist comes
\* into existence with the children written.
ComPapel(uid, role) == [usuarios EXCEPT ![uid] = role]

\* firebase update(ref(usuarios/uid), {nome, email})
ComNome(uid) ==
    /\ nomes' = [nomes EXCEPT ![uid] = 1]
    /\ usuarios' = [usuarios EXCEPT ![uid] = IF @ = "none" THEN "semPapel" ELSE @]

\* An updateUserRole that writes whatever the role of the caller.
UpdateUserRoleSemGuarda(s, uid, role) ==
    /\ \E ok \in BOOLEAN :
         IF ok THEN /\ usuarios' = ComPapel(uid, role)
                    /\ Resultado(s, "updateUserRole", "", TRUE)
         ELSE /\ Resultado(s, "updateUserRole", "Erro ao atualizar papel", TRUE)
              /\ UNCHANGED usuarios
    /\ UNCHANGED <<nomes, foraUsuarios>>

\* AuthManager.updateUserRole(uid, role)
UpdateUserRole(s, uid, role) ==
    /\ IF ~IsGestor(s)
       THEN /\ Resultado(s, "updateUserRole", "Sem permissão", FALSE)
            /\ UNCHANGED usuarios
       ELSE \E ok \in BOOLEAN :
              IF ok THEN /\ usuarios' = ComPapel(uid, role)
                         /\ Resultado(s, "updateUserRole", "", TRUE)
              ELSE /\ Resultado(s, "updateUserRole", "Erro ao atualizar papel", TRUE)
                   /\ UNCHANGED usuarios
    /\ UNCHANGED <<nomes, foraUsuarios>>

\* AuthManager.deleteUser(uid)
DeleteUser(s, uid) ==
    /\ IF ~IsGestor(s)
       THEN /\ Resultado(s, "deleteUser", "Sem permissão", FALSE)
            /\ UNCHANGED <<usuarios, nomes>>
       ELSE IF uid = conta[s]
       THEN /\ Resultado(s, "deleteUser", "Você não pode excluir a si mesmo", FALSE)
            /\ UNCHANGED <<usuarios, nomes>>
       ELSE \E ok \in BOOLEAN :
              IF ok THEN /\ usuarios' = [usuarios EXCEPT ![uid] = "none"]
                         /\ nomes' = [nomes EXCEPT ![uid] = 0]
                         /\ Resultado(s, "deleteUser", "", TRUE)
              ELSE /\ Resultado(s, "deleteUser", "Erro ao excluir usuário", TRUE)
                   /\ UNCHANGED <<usuarios, nomes>>
    /\ UNCHANGED foraUsuarios

\* AuthManager.updateUser(uid, dados): updatePassword for the own account when a
\* password is given, then the update of nome and email; either may be rejected.
UpdateUser(s, uid) ==
    /\ IF ~IsGestor(s)
       THEN /\ Resultado(s, "updateUser", "Sem permissão", FALSE)
            /\ UNCHANGED <<usuarios, nomes>>
       ELSE \E ok \in BOOLEAN :
              IF ok THEN /\ ComNome(uid)
                         /\ Resultado(s, "updateUser", "", TRUE)
              ELSE /\ Resultado(s, "updateUser", "Erro ao atualizar usuário", TRUE)
                   /\ UNCHANGED <<usuarios, nomes>>
    /\ UNCHANGED foraUsuarios

\* A gestor and a usuario, each signed in on a started page.
InitUsuarios ==
    /\ tick = 0
    /\ tz = "utc"
    /\ variant = "owner"
    /\ AlertaInicial
    /\ PaginasProntas
    /\ currentRole = [s \in Sessoes |-> IF s = "s1" THEN "gestor" ELSE "usuario"]
    /\ conta = [s \in Sessoes |-> IF s = "s1" THEN "u1" ELSE "u2"]
    /\ Semeada
    /\ BackupParado
    /\ PodaParada
    /\ ColetaParada
    /\ OuvirParado
    /\ ControlesParados
    /\ ExtrasParados

NextUsuarios ==
    \/ \E s \in Sessoes, uid \in Contas, role \in Papeis : UpdateUserRole(s, uid, role)
    \/ \E s \in Sessoes, uid \in Contas : DeleteUser(s, uid)
    \/ \E s \in Sessoes, uid \in Contas : UpdateUser(s, uid)
    \/ \E s \in Sessoes : RecarregarPagina(s)
    \/ \E s \in Sessoes : EnsureLerRegistro(s)
    \/ \E s \in Sessoes : EnsureLerUsuarios(s)
    \/ \E s \in Sessoes : EnsureGravar(s)
    \/ \E s \in Sessoes : ProcessosInitialize(s)

SpecUsuarios == InitUsuarios /\ [][NextUsuarios]_vars

\* C23: updateUserRole, deleteUser and updateUser called while the role of the
\* session is not gestor issue no remote write and return {success: false,
\* error: 'Sem permissão'}; the stored user records stay as they were.
C23_SemPermissao ==
    [][\A s \in Sessoes :
         (adm' # adm /\ adm'.sessao = s /\ currentRole[s] # "gestor") =>
             /\ adm'.erro = "Sem permissão"
             /\ ~adm'.escreveu
             /\ usuarios' = usuarios
             /\ nomes' = nomes]_vars

\* A session whose stored record was edited and made gestor by the gestor, but
\* whose page still holds the role usuario, was refused.
C23_Witness ==
    \E s \in Sessoes :
        /\ adm.sessao = s /\ adm.metodo = "deleteUser"
        /\ adm.papel = "usuario" /\ adm.erro = "Sem permissão"
        /\ ~adm.escreveu
        /\ currentRole[s] = "usuario"
        /\ usuarios[conta[s]] = "gestor"
        /\ nomes[conta[s]] = 1

\* C24: in the all-users variant the key of an alert is recorded in the ledger
\* after every attempt to notify, whatever notificarAlertaPrazo returned (a
\* failed send, a service that is not initialized, no address at all), so the
\* alert is not attempted again that day: the key is pushed whatever the
\* result, the evaluation that made the attempt leaves the key in the ledger,
\* and no attempt is made for a key that was attempted before.
C24_ChaveGravadaSempre ==
    [][variant = "all" =>
         \A t \in Tabs :
            LET chave == Chave(CaseOrder[idx[t]], lim[t], hoje[t])
            IN /\ (pcA[t] = "sent" /\ pcA'[t] = "notify") => chave \in novos'[t]
               /\ (pcA[t] = "sent" /\ pcA'[t] = "idle") => chave \in ledger'
               /\ (pcA[t] = "notify" /\ pcA'[t] = "sent") => chave \notin tentados]_vars

\* ================================================== sessions of a page
\* A seeded deployment; the login page is open in both browsers and nobody has
\* signed in.
InitSessao ==
    /\ tick = 0
    /\ tz = "utc"
    /\ variant = "owner"
    /\ AlertaInicial
    /\ PaginasNovas
    /\ conta = [s \in Sessoes |-> IF s = "s1" THEN "u1" ELSE "u2"]
    /\ usuarios = [u \in Contas |-> IF u = "u1" THEN "gestor" ELSE "usuario"]
    /\ pcSign = [s \in Sessoes |-> "out"]
    /\ pcEns = [s \in Sessoes |-> "idle"]
    /\ andamento = (1 :> Semente)
    /\ finalizados = {}
    /\ proxChave = 2
    /\ BackupParado
    /\ PodaParada
    /\ ColetaParada
    /\ OuvirParado
    /\ ControlesParados
    /\ ExtrasParados

NextSessao ==
    \/ \E s \in Sessoes : EntrarSessao(s)
    \/ \E s \in Sessoes : Cadastrar(s)
    \/ \E s \in Sessoes : SignupLerUsuarios(s)
    \/ \E s \in Sessoes : SignupGravar(s)
    \/ \E s \in Sessoes : EnsureLerRegistro(s)
    \/ \E s \in Sessoes : ProcessosInitialize(s)
    \/ \E s \in Sessoes : SairSessao(s)
    \/ \E s \in Sessoes : RecarregarPagina(s)
    \/ \E s \in Sessoes : RecarregarSemSessao(s)

SpecSessao == InitSessao /\ [][NextSessao]_vars

C26_NuncaPerdeOProcesso ==
    [][\A s \in Sessoes :
         (/\ pcF[s] \in {"create", "delete"}
          /\ pcF'[s] # pcF[s]
          /\ alvo[s] \in DOMAIN andamento) =>
             \/ alvo[s] \in DOMAIN andamento'
             \/ \E r \in finalizados' :
                   /\ r.sigadoc = andamento[alvo[s]].sigadoc
                   /\ r.dataInicio = andamento[alvo[s]].dataInicio
                   /\ r.status = andamento[alvo[s]].status]_vars

\* C27: finalizarProcesso returns success only when the finalized copy was
\* written and the in-progress record was deleted; when either write fails it
\* returns a failure.
C27_SucessoSoDaMudancaCompleta ==
    \A s \in Sessoes : ultimo[s] \in Sucessos => ultimo[s] = "ok"

\* C28: the day in an alert ledger key is the day diasParaPrazo treats as
\* today: an evaluation that reaches a notificarAlertaPrazo call builds its keys
\* with the local calendar day of the clock, at any time of day and in any
\* timezone, so two evaluations on one local day build the same key for a case
\* and threshold.
C28_DiaDaChaveEODiaLocal ==
    [][\A t \in Tabs :
         (pcA[t] = "get" /\ pcA'[t] = "notify") =>
             /\ hoje'[t] = LocalDay(tick)
             /\ DiasParaPrazo(snapPrazo'[t][CaseOrder[idx'[t]]], tick)
                  = snapPrazo'[t][CaseOrder[idx'[t]]] - hoje'[t]]_vars

C30_PonteiroComSnapshot ==
    lastBackupKey # << >> =>
        /\ lastBackupKey \in backupsData
        /\ lastBackupKey \in backupsMeta


====
